---- MODULE Spec2Model ----
(***************************************************************************)
(* Verification model of the document translation pipeline.                *)
(*                                                                         *)
(*   SpecGateway : OaiClient.translate_segments, one oracle attempt per    *)
(*                 step (src/translation_oai_client.py).                   *)
(*   SpecWalker  : the DOCX / PPTX / PDF document walkers, extraction and  *)
(*                 reinsertion (src/docx_processor.py,                     *)
(*                 src/pptx_processor.py, src/pdf_processor.py,            *)
(*                 src/translators/pptx_translator.py).                    *)
(*                                                                         *)
(* Texts are sequences of one-character strings, so that str.strip() is    *)
(* computed; segment ids are the strings the f-strings of the source       *)
(* build.                                                                  *)
(***************************************************************************)
EXTENDS Integers, Sequences, FiniteSets, TLC

VARIABLES
    \* ---- translate_segments ----
    segments,            \* the input list of {"id", "text"} segments
    batch_size,          \* parameter batch_size
    max_retries,         \* parameter max_retries
    batches,             \* list(utils.chunk_list(segments, batch_size))
    batch_idx,           \* 1-based position of the for loop over the batches
    attempts,            \* local variable attempts of the current batch
    id_to_translation,   \* the cumulative result dict
    pc,                  \* "run" | "returned" | "raised"
    payloads,            \* history: the distinct payloads sent, in order
    resent,              \* history: some payload was sent more than once
    last,                \* history: what the most recent attempt saw and did
    accepted,            \* history: the pairs the accepted responses supplied
    \* ---- document walkers ----
    walker,              \* the class at work: "DocxProcessor", "PptxProcessor", ...
    tree,                \* the document tree of the format library
    tree0,               \* history: the tree as loaded
    extracted,           \* the segment list of the latest extraction
    first_ids,           \* history: the id list of the first extraction
    n_collect,           \* history: extractions run so far
    applied,             \* history: the Translation Map reinserted, if any
    \* ---- translate_document (one call) ----
    processor,           \* the class whose translate_document runs
    filename,            \* parameter filename
    content_bytes,       \* parameter content_bytes
    td_doc,              \* the document opened from content_bytes: tree and images
    ppc,                 \* position inside translate_document
    td_segments,         \* local variable segments
    td_map,              \* local variable id_to_translation
    result,              \* the bytes returned, once returned
    out_name,            \* the name the caller gives the output
    trace,               \* history: the phases run, in order
    gateway_calls,       \* history: calls of translate_segments
    img_log,             \* history: what happened to each image
    \* ---- main ----
    file_list,           \* utils.get_files_to_process()
    file_idx,            \* 1-based position of the for loop over file_list
    mpc,                 \* position inside main
    outputs,             \* the names in the output container when main starts
    uploads,             \* the output container: uploads of this run, in order
    status_log,          \* the rows of translation_status.csv
    written,             \* history: the rows this run wrote, in order
    last_log,            \* history: the latest log_status call
    cur,                 \* history: what happened to the file being processed
    \* ---- _render_translated_image ----
    rtext,               \* translated_text, the answer of the vision oracle
    rheight,             \* height of the original image in pixels
    rline,               \* line_height of the font in pixels
    rmode,               \* "none" | "table" | "text": the layout drawn
    rects,               \* the cells a rectangle was drawn for, as <<row, column>>
    rpc,                 \* "idle" | "start" | "done"
    \* ---- worker instances calling log_status in parallel ----
    shared_log,          \* the rows of the status blob the workers share
    wk                   \* per worker: position in log_status, old_content, its row

gvars == <<segments, batch_size, max_retries, batches, batch_idx, attempts,
           id_to_translation, pc, payloads, resent, last, accepted>>

wvars == <<walker, tree, tree0, extracted, first_ids, n_collect, applied>>

pvars == <<processor, filename, content_bytes, td_doc, ppc, td_segments, td_map, result,
           out_name, trace, gateway_calls, img_log>>

mvars == <<file_list, file_idx, mpc, outputs, uploads, status_log, written, last_log,
           cur>>

rvars == <<rtext, rheight, rline, rmode, rects, rpc>>

\* the variables of the parts specified after the gateway and the walkers
kvars == <<shared_log, wk>>

xvars == <<pvars, mvars, rvars, kvars>>

vars == <<gvars, wvars, xvars>>

-----------------------------------------------------------------------------
(* Bounds *)

MaxSegs == 3
MaxBatchSize == 2
MaxRetries == 3
MaxUnits == 4        \* runs (spans) per document
MaxCollects == 2     \* extractions per document

\* The shape limits follow the run budget: with 4 runs, 2 paragraphs of 2
\* runs, one table of 2 x 2 cells.
MaxParas == MaxUnits \div 2
MaxRuns == MaxUnits \div 2
MaxTables == MaxUnits \div 4
MaxRows == MaxUnits \div 2
MaxCols == MaxUnits \div 2
MaxSlides == MaxUnits \div 2
PptxUnits == MaxUnits - 1
MaxShapes == 2       \* shapes per slide or group
MaxDepth == 2        \* nesting depth of group shapes

-----------------------------------------------------------------------------
(* Small helpers *)

Min(a, b) == IF a < b THEN a ELSE b

Range(s) == {s[i] : i \in 1..Len(s)}

EmptyMap == [x \in {} |-> <<>>]

\* dict[key] = value
MapPut(m, k, v) == [x \in (DOMAIN m) \cup {k} |-> IF x = k THEN v ELSE m[x]]

RECURSIVE Flatten(_)
Flatten(ss) == IF Len(ss) = 0 THEN <<>> ELSE Head(ss) \o Flatten(Tail(ss))

\* applied before any reinsertion
NoMap == [done |-> FALSE, map |-> EmptyMap]

\* The walker variables while the gateway is specified on its own.
WalkerIdle ==
    /\ walker = "none"
    /\ tree = <<>>
    /\ tree0 = <<>>
    /\ extracted = <<>>
    /\ first_ids = <<>>
    /\ n_collect = 0
    /\ applied = NoMap

\* no bytes, no map, no call yet
NoBytes == [fmt |-> "none", tree |-> <<>>, images |-> <<>>, saved |-> FALSE]

NoLogCall == [called |-> FALSE, ok |-> FALSE, before |-> <<>>, after |-> <<>>,
              row |-> [blob_name |-> <<>>, status |-> "none"]]

NoFile == [file |-> <<>>, downloaded |-> FALSE, translate |-> "none", uploaded |-> FALSE,
           calls |-> <<>>, skipped |-> FALSE, failed |-> "none", unreported |-> FALSE]

\* The translate_document variables while another part is specified.
PipelineIdle ==
    /\ processor = "none"
    /\ filename = <<>>
    /\ content_bytes = NoBytes
    /\ td_doc = NoBytes
    /\ ppc = "idle"
    /\ td_segments = <<>>
    /\ td_map = NoMap
    /\ result = NoBytes
    /\ out_name = <<>>
    /\ trace = <<>>
    /\ gateway_calls = 0
    /\ img_log = <<>>

\* The variables of main while another part is specified.
MainIdle ==
    /\ file_list = <<>>
    /\ file_idx = 0
    /\ mpc = "idle"
    /\ outputs = {}
    /\ uploads = <<>>
    /\ status_log = <<>>
    /\ written = <<>>
    /\ last_log = NoLogCall
    /\ cur = NoFile

\* The rendering variables while another part is specified.
RenderIdle ==
    /\ rtext = <<>>
    /\ rheight = 0
    /\ rline = 0
    /\ rmode = "none"
    /\ rects = {}
    /\ rpc = "idle"

\* The worker variables while another part is specified.
WorkersIdle ==
    /\ shared_log = <<>>
    /\ wk = <<>>

-----------------------------------------------------------------------------
(* Batch translation gateway: OaiClient.translate_segments *)

\* "seg_001", "seg_002", ... as in the docstring of translate_segments
SegIdTable == [i \in 1..MaxSegs |-> "seg_00" \o ToString(i)]

SegId(i) == SegIdTable[i]

IdUniverse == {SegId(i) : i \in 1..MaxSegs}

\* translated strings the oracle may answer with (the empty string included)
OracleTexts == {<<>>, <<"x">>}

InputSegments(n) == [i \in 1..n |-> [id |-> SegId(i), text |-> <<"s">>]]

\* utils.chunk_list(lst, n): consecutive slices lst[i:i+n], i = 0, n, 2n, ...
RECURSIVE chunk_list(_, _)
chunk_list(lst, n) ==
    IF Len(lst) = 0 THEN <<>>
    ELSE <<SubSeq(lst, 1, Min(n, Len(lst)))>>
         \o chunk_list(SubSeq(lst, Min(n, Len(lst)) + 1, Len(lst)), n)

\* batch_ids = [s["id"] for s in batch]
BatchIds(batch) == [i \in 1..Len(batch) |-> batch[i].id]

(* An oracle response:
     kind "raise"   : chat.completions.create raises
     kind "garbage" : content that safe_json_loads cannot parse
     kind "json"    : parsed content; segs is the list parsed["segments"], each
                      entry a record with an id and, unless malformed, text_fr *)
RECURSIVE EntriesOf(_, _, _)
EntriesOf(n, S, t) ==
    IF n = 0 THEN <<>>
    ELSE EntriesOf(n - 1, S, t)
         \o (IF SegId(n) \in S THEN <<[id |-> SegId(n), text_fr |-> t]>> ELSE <<>>)

MalformedEntry == [id |-> SegId(1)]

Responses ==
    {[kind |-> "raise", segs |-> <<>>], [kind |-> "garbage", segs |-> <<>>]}
    \cup {[kind |-> "json", segs |-> EntriesOf(MaxSegs, S, t) \o tail] :
            S \in SUBSET IdUniverse, t \in OracleTexts,
            tail \in {<<>>, <<MalformedEntry>>}}

\* utils.safe_json_loads(content): the parsed object, or a failure
safe_json_loads(resp) ==
    IF resp.kind = "json" THEN [ok |-> TRUE, segments |-> resp.segs]
    ELSE [ok |-> FALSE, segments |-> <<>>]

\* for seg in out_segments: id_to_translation[seg["id"]] = seg["text_fr"]
\* A KeyError leaves the entries written so far in the dict.
RECURSIVE StoreSegments(_, _)
StoreSegments(m, out_segments) ==
    IF Len(out_segments) = 0 THEN [map |-> m, ok |-> TRUE]
    ELSE LET seg == Head(out_segments) IN
         IF "text_fr" \notin DOMAIN seg THEN [map |-> m, ok |-> FALSE]
         ELSE StoreSegments(MapPut(m, seg.id, seg.text_fr), Tail(out_segments))

\* Mutant: the sanity check is dropped.
MissingIdsUnchecked(batch_ids, m) == {}

\* missing_ids = set(batch_ids) - set(id_to_translation.keys())
MissingIds(batch_ids, m) == Range(batch_ids) \ DOMAIN m

\* Mutant: the slice loses its last segment.
PayloadShort(batch) == SubSeq(batch, 1, Len(batch) - 1)

\* payload = {"segments": batch}
Payload(batch) == batch

\* The body of the try block for one attempt: the dict afterwards and whether
\* the block ended without an exception.
TryAttempt(m, batch_ids, resp) ==
    IF resp.kind = "raise" THEN [map |-> m, ok |-> FALSE]
    ELSE LET parsed == safe_json_loads(resp) IN
         IF ~parsed.ok THEN [map |-> m, ok |-> FALSE]
         ELSE LET st == StoreSegments(m, parsed.segments) IN
              IF ~st.ok THEN st
              ELSE [map |-> st.map, ok |-> MissingIds(batch_ids, st.map) = {}]

\* What the response itself supplies: its well-formed entries, last one wins.
RECURSIVE ResponseMap(_)
ResponseMap(segs) ==
    IF Len(segs) = 0 THEN EmptyMap
    ELSE LET seg == segs[Len(segs)]
             rest == ResponseMap(SubSeq(segs, 1, Len(segs) - 1)) IN
         IF "text_fr" \in DOMAIN seg /\ seg.id \notin DOMAIN rest
         THEN MapPut(rest, seg.id, seg.text_fr) ELSE rest

\* The response is a complete answer for the batch: it parses, every entry is
\* well formed and every id of the batch occurs in it.
CompleteResponse(resp, batch_ids) ==
    /\ resp.kind = "json"
    /\ \A i \in 1..Len(resp.segs) : "text_fr" \in DOMAIN resp.segs[i]
    /\ Range(batch_ids) \subseteq {resp.segs[i].id : i \in 1..Len(resp.segs)}

\* The entries of the response for the ids of the batch.
Supplied(resp, batch_ids) ==
    LET rm == ResponseMap(resp.segs) IN
    [x \in (DOMAIN rm) \cap Range(batch_ids) |-> rm[x]]

\* the pairs of a and, for the other keys, of b
Merge(a, b) ==
    [x \in (DOMAIN a) \cup (DOMAIN b) |-> IF x \in DOMAIN b THEN b[x] ELSE a[x]]

\* dict restricted to a set of keys
Restrict(m, S) == [x \in (DOMAIN m) \cap S |-> m[x]]

NoAttempt ==
    [outcome |-> "none", batch |-> 0, calls |-> 0, fails |-> 0,
     complete |-> FALSE, matches |-> FALSE]

GatewayInit ==
    /\ \E n \in 0..MaxSegs : segments = InputSegments(n)
    /\ batch_size \in 1..MaxBatchSize
    /\ max_retries \in 0..MaxRetries
    /\ batches = chunk_list(segments, batch_size)
    /\ batch_idx = 1
    /\ attempts = 0
    /\ id_to_translation = EmptyMap
    /\ pc = "run"
    /\ payloads = <<>>
    /\ resent = FALSE
    /\ last = NoAttempt
    /\ accepted = EmptyMap
    /\ WalkerIdle
    /\ PipelineIdle
    /\ MainIdle
    /\ RenderIdle
    /\ WorkersIdle

\* Oracle invocations made so far for the batch the for loop is at.
CallsOfCurrent == IF last.batch = batch_idx THEN last.calls ELSE 0

FailsOfCurrent == IF last.batch = batch_idx THEN last.fails ELSE 0

\* Mutant: the exhaustion test is off by one, so the last failure does not raise.
OutcomeLate(ok, attempts_now, retries) ==
    IF ok THEN "accepted"
    ELSE IF attempts_now > retries THEN "raised"
    ELSE "retry"

\* The outcome of one pass of the while loop whose try block ended ok / not ok
\* (break; or the except clause: raise when attempts >= max_retries).
Outcome(ok, attempts_now, retries) ==
    IF ok THEN "accepted"
    ELSE IF attempts_now >= retries THEN "raised"
    ELSE "retry"

\* One pass of the while loop: the oracle is invoked and answers resp.
Attempt(resp) ==
    /\ pc = "run"
    /\ batch_idx <= Len(batches)
    /\ attempts < max_retries
    /\ LET batch == batches[batch_idx]
           batch_ids == BatchIds(batch)
           r == TryAttempt(id_to_translation, batch_ids, resp)
           outcome == Outcome(r.ok, attempts + 1, max_retries)
           complete == CompleteResponse(resp, batch_ids)
       IN /\ id_to_translation' = r.map
          /\ payloads' = IF CallsOfCurrent = 0 THEN Append(payloads, Payload(batch)) ELSE payloads
          /\ resent' = (resent \/ CallsOfCurrent > 0)
          /\ last' = [outcome |-> outcome, batch |-> batch_idx,
                       calls |-> CallsOfCurrent + 1,
                       fails |-> FailsOfCurrent + (IF complete THEN 0 ELSE 1),
                       complete |-> complete,
                       matches |-> Restrict(r.map, Range(batch_ids))
                                   = Supplied(resp, batch_ids)]
          /\ accepted' = IF outcome = "accepted"
                          THEN Merge(accepted, Supplied(resp, batch_ids))
                          ELSE accepted
          /\ \/ /\ outcome = "accepted"          \* break: on to the next batch
                /\ batch_idx' = batch_idx + 1
                /\ attempts' = 0
                /\ pc' = "run"
             \/ /\ outcome = "retry"             \* except: logged, loop again
                /\ batch_idx' = batch_idx
                /\ attempts' = attempts + 1
                /\ pc' = "run"
             \/ /\ outcome = "raised"            \* except: attempts >= max_retries
                /\ batch_idx' = batch_idx
                /\ attempts' = attempts + 1
                /\ pc' = "raised"
    /\ UNCHANGED <<segments, batch_size, max_retries, batches>>
    /\ UNCHANGED <<wvars, xvars>>

\* The while condition is false on entry (max_retries <= 0): the loop body
\* never runs and the for loop moves on.
WhileNotEntered ==
    /\ pc = "run"
    /\ batch_idx <= Len(batches)
    /\ ~(attempts < max_retries)
    /\ batch_idx' = batch_idx + 1
    /\ attempts' = 0
    /\ UNCHANGED <<segments, batch_size, max_retries, batches,
                   id_to_translation, pc, payloads, resent, last, accepted>>
    /\ UNCHANGED <<wvars, xvars>>

\* The for loop is exhausted: return id_to_translation
Return ==
    /\ pc = "run"
    /\ batch_idx > Len(batches)
    /\ pc' = "returned"
    /\ UNCHANGED <<segments, batch_size, max_retries, batches, batch_idx,
                   attempts, id_to_translation, payloads, resent, last, accepted>>
    /\ UNCHANGED <<wvars, xvars>>

GatewayNext ==
    \/ \E resp \in Responses : Attempt(resp)
    \/ WhileNotEntered
    \/ Return

SpecGateway == GatewayInit /\ [][GatewayNext]_vars

-----------------------------------------------------------------------------
(* Text: str.strip() and the truth tests of the walkers *)

IsSpace(c) == c \in {" ", "\t", "\n"}

RECURSIVE LStrip(_)
LStrip(t) == IF Len(t) > 0 /\ IsSpace(Head(t)) THEN LStrip(Tail(t)) ELSE t

RECURSIVE RStrip(_)
RStrip(t) ==
    IF Len(t) > 0 /\ IsSpace(t[Len(t)]) THEN RStrip(SubSeq(t, 1, Len(t) - 1)) ELSE t

\* text.strip()
Strip(t) == RStrip(LStrip(t))

\* "if text and text.strip()"
NonBlank(text) == Len(text) > 0 /\ Len(Strip(text)) > 0

Hello == <<"H", "e", "l", "l", "o">>

\* run texts of the documents: empty, whitespace only, plain, padded
RunTexts == {<<>>, <<" ">>, Hello, <<" ", "a">>}

\* translated strings of a Translation Map
Bonjour == <<"B", "o", "n", "j", "o", "u", "r">>

TransTexts == {<<>>, Bonjour}

-----------------------------------------------------------------------------
(* DOCX: DocxProcessor
   doc       = [paragraphs, tables]        (Document.paragraphs, Document.tables:
                                            the top-level ones only)
   paragraph = [runs]                      (a run is its text)
   table     = [rows], row = [cells]
   cell      = [paragraphs, tables]        (cell.tables: tables nested in the cell) *)

\* f"p-{p_idx}-r-{r_idx}" of _collect_segments
DocxParaSegId(p_idx, r_idx) == "p-" \o ToString(p_idx) \o "-r-" \o ToString(r_idx)

\* f"tbl-{t_idx}-row-{row_idx}-col-{col_idx}-p-{p_idx}-r-{r_idx}" of _collect_segments
DocxCellSegId(t_idx, row_idx, col_idx, p_idx, r_idx) ==
    "tbl-" \o ToString(t_idx) \o "-row-" \o ToString(row_idx) \o "-col-"
    \o ToString(col_idx) \o "-p-" \o ToString(p_idx) \o "-r-" \o ToString(r_idx)

\* The two loops of _collect_segments; with all set, blank runs are listed
\* too. Indices are those of enumerate (from 0).
Docx_walk(doc, all) ==
    Flatten([p \in 1..Len(doc.paragraphs) |->
        Flatten([r \in 1..Len(doc.paragraphs[p].runs) |->
            LET text == doc.paragraphs[p].runs[r] IN
            IF all \/ NonBlank(text)
            THEN <<[id |-> DocxParaSegId(p - 1, r - 1), text |-> text]>>
            ELSE <<>>])])
    \o
    Flatten([t \in 1..Len(doc.tables) |->
        Flatten([row \in 1..Len(doc.tables[t].rows) |->
            Flatten([col \in 1..Len(doc.tables[t].rows[row].cells) |->
                LET cell == doc.tables[t].rows[row].cells[col] IN
                Flatten([p \in 1..Len(cell.paragraphs) |->
                    Flatten([r \in 1..Len(cell.paragraphs[p].runs) |->
                        LET text == cell.paragraphs[p].runs[r] IN
                        IF all \/ NonBlank(text)
                        THEN <<[id |-> DocxCellSegId(t - 1, row - 1, col - 1, p - 1, r - 1),
                                text |-> text]>>
                        ELSE <<>>])])])])])

\* DocxProcessor._collect_segments
Docx_collect_segments(doc) == Docx_walk(doc, FALSE)

\* seg_id of _apply_text_translations, top-level paragraphs
DocxParaApplyId(p_idx, r_idx) == "p-" \o ToString(p_idx) \o "-r-" \o ToString(r_idx)

\* seg_id of _apply_text_translations, table cells
DocxCellApplyId(t_idx, row_idx, col_idx, p_idx, r_idx) ==
    "tbl-" \o ToString(t_idx) \o "-row-" \o ToString(row_idx) \o "-col-"
    \o ToString(col_idx) \o "-p-" \o ToString(p_idx) \o "-r-" \o ToString(r_idx)

\* Mutant: a missing id blanks the run (dict.get(seg_id, "")).
ApplyRunBlanking(text, seg_id, m) ==
    IF ~NonBlank(text) THEN text
    ELSE IF seg_id \in DOMAIN m THEN m[seg_id] ELSE <<>>

\* Mutant: the translation is written stripped.
ApplyRunStripped(text, seg_id, m) ==
    IF ~NonBlank(text) THEN text
    ELSE IF seg_id \in DOMAIN m THEN Strip(m[seg_id]) ELSE text

\* Mutant: the blank test is dropped, a keyed blank run is rewritten too.
ApplyRunNoSkip(text, seg_id, m) ==
    IF seg_id \in DOMAIN m THEN m[seg_id] ELSE text

\* if not text or not text.strip(): continue
\* if seg_id in id_to_translation: run.text = id_to_translation[seg_id]
ApplyRun(text, seg_id, m) ==
    IF ~NonBlank(text) THEN text
    ELSE IF seg_id \in DOMAIN m THEN m[seg_id] ELSE text

\* DocxProcessor._apply_text_translations: the tree after the call
Docx_apply_text_translations(doc, m) ==
    [paragraphs |->
        [p \in 1..Len(doc.paragraphs) |->
            [runs |-> [r \in 1..Len(doc.paragraphs[p].runs) |->
                ApplyRun(doc.paragraphs[p].runs[r], DocxParaApplyId(p - 1, r - 1), m)]]],
     tables |->
        [t \in 1..Len(doc.tables) |->
            [rows |-> [row \in 1..Len(doc.tables[t].rows) |->
                [cells |-> [col \in 1..Len(doc.tables[t].rows[row].cells) |->
                    LET cell == doc.tables[t].rows[row].cells[col] IN
                    [paragraphs |->
                        [p \in 1..Len(cell.paragraphs) |->
                            [runs |-> [r \in 1..Len(cell.paragraphs[p].runs) |->
                                ApplyRun(cell.paragraphs[p].runs[r],
                                         DocxCellApplyId(t - 1, row - 1, col - 1, p - 1, r - 1),
                                         m)]]],
                     tables |-> cell.tables]]]]]]]

(* The DOCX documents explored: up to MaxParas top-level paragraphs of up to
   MaxRuns runs, up to MaxTables rectangular tables of up to MaxRows x MaxCols
   cells; a cell holds one paragraph of one run and possibly a nested 1 x 1
   table; at most MaxUnits runs in all. *)
RunLists(b) == UNION {[1..k -> RunTexts] : k \in 0..Min(b, MaxRuns)}

Paras(b) == {[runs |-> rs] : rs \in RunLists(b)}

RECURSIVE ParaLists(_, _)
ParaLists(n, b) ==
    IF n = 0 THEN {<<>>}
    ELSE {<<>>} \cup UNION {{<<para>> \o rest : rest \in ParaLists(n - 1, b - Len(para.runs))} :
                              para \in Paras(b)}

RECURSIVE ParaRuns(_)
ParaRuns(ps) == IF Len(ps) = 0 THEN 0 ELSE Len(Head(ps).runs) + ParaRuns(Tail(ps))

NestedTable ==
    [rows |-> <<[cells |-> <<[paragraphs |-> <<[runs |-> <<Hello>>]>>, tables |-> <<>>]>>]>>]

Cells ==
    {[paragraphs |-> <<[runs |-> <<t>>]>>, tables |-> nested] :
        t \in RunTexts \ {<<>>}, nested \in {<<>>, <<NestedTable>>}}

CellRuns(cell) == 1 + Len(cell.tables)

RECURSIVE SumOver(_)
SumOver(ns) == IF Len(ns) = 0 THEN 0 ELSE Head(ns) + SumOver(Tail(ns))

TableRuns(table) ==
    SumOver([row \in 1..Len(table.rows) |->
        SumOver([col \in 1..Len(table.rows[row].cells) |->
            CellRuns(table.rows[row].cells[col])])])

\* the rectangular tables of nr x nc cells
Grids(nr, nc) ==
    {[rows |-> [row \in 1..nr |-> [cells |-> g[row]]]] : g \in [1..nr -> [1..nc -> Cells]]}

Tables(b) ==
    UNION {{table \in Grids(d[1], d[2]) : TableRuns(table) <= b} :
             d \in {e \in (1..MaxRows) \X (1..MaxCols) : e[1] * e[2] <= b}}

RECURSIVE TableLists(_, _)
TableLists(n, b) ==
    IF n = 0 THEN {<<>>}
    ELSE {<<>>} \cup UNION {{<<table>> \o rest : rest \in TableLists(n - 1, b - TableRuns(table))} :
                              table \in Tables(b)}

DocxDocs ==
    UNION {{[paragraphs |-> pl, tables |-> tl] :
               tl \in TableLists(MaxTables, MaxUnits - ParaRuns(pl))} :
             pl \in ParaLists(MaxParas, MaxUnits)}


\* paragraph 1 = one run "Hello", paragraph 2 empty
HelloDoc == [paragraphs |-> <<[runs |-> <<Hello>>], [runs |-> <<>>]>>, tables |-> <<>>]

-----------------------------------------------------------------------------
(* PPTX: PptxProcessor (recursive over group shapes) and PptxTranslator
   pres  = [slides], slide = [shapes]
   shape = [kind, paragraphs, rows, shapes]
           kind "text"    : has_text_frame, text_frame.paragraphs = paragraphs
           kind "table"   : has_table, table.rows = rows, row = [cells],
                            cell = [paragraphs]   (cell.text_frame.paragraphs)
           kind "group"   : shape_type == MSO_SHAPE_TYPE.GROUP, children = shapes
           kind "picture" : none of these *)

has_text_frame(shape) == shape.kind = "text"

has_table(shape) == shape.kind = "table"

is_group(shape) == shape.kind = "group"

\* shape_path = f"sh-{sh_idx}"
PptxShapePath(sh_idx) == "sh-" \o ToString(sh_idx)

\* sub_path = f"{shape_path}-g-{g_idx}"
PptxSubPath(shape_path, g_idx) == shape_path \o "-g-" \o ToString(g_idx)

\* f"s-{s_idx}-{shape_path}-p-{p_idx}-r-{r_idx}"
PptxTextSegId(s_idx, shape_path, p_idx, r_idx) ==
    "s-" \o ToString(s_idx) \o "-" \o shape_path \o "-p-" \o ToString(p_idx)
    \o "-r-" \o ToString(r_idx)

\* f"s-{s_idx}-{shape_path}-tbl-row-{row_idx}-col-{col_idx}-p-{p_idx}-r-{r_idx}"
PptxCellSegId(s_idx, shape_path, row_idx, col_idx, p_idx, r_idx) ==
    "s-" \o ToString(s_idx) \o "-" \o shape_path \o "-tbl-row-" \o ToString(row_idx)
    \o "-col-" \o ToString(col_idx) \o "-p-" \o ToString(p_idx) \o "-r-" \o ToString(r_idx)

\* The text-frame and table parts of _collect_from_shape (1 and 2); with all
\* set, blank runs are listed too.
PptxShapeRuns(shape, s_idx, shape_path, all) ==
    (IF has_text_frame(shape)
     THEN Flatten([p \in 1..Len(shape.paragraphs) |->
            Flatten([r \in 1..Len(shape.paragraphs[p].runs) |->
                LET text == shape.paragraphs[p].runs[r] IN
                IF all \/ NonBlank(text)
                THEN <<[id |-> PptxTextSegId(s_idx, shape_path, p - 1, r - 1), text |-> text]>>
                ELSE <<>>])])
     ELSE <<>>)
    \o
    (IF has_table(shape)
     THEN Flatten([row \in 1..Len(shape.rows) |->
            Flatten([col \in 1..Len(shape.rows[row].cells) |->
                LET cell == shape.rows[row].cells[col] IN
                Flatten([p \in 1..Len(cell.paragraphs) |->
                    Flatten([r \in 1..Len(cell.paragraphs[p].runs) |->
                        LET text == cell.paragraphs[p].runs[r] IN
                        IF all \/ NonBlank(text)
                        THEN <<[id |-> PptxCellSegId(s_idx, shape_path, row - 1, col - 1,
                                                     p - 1, r - 1),
                                text |-> text]>>
                        ELSE <<>>])])])])
     ELSE <<>>)

\* PptxProcessor._collect_from_shape: parts 1 and 2, then (3) the children of a
\* group shape, each under its sub_path.
RECURSIVE Pptx_collect_from_shape(_, _, _, _)
Pptx_collect_from_shape(shape, s_idx, shape_path, all) ==
    PptxShapeRuns(shape, s_idx, shape_path, all)
    \o
    (IF is_group(shape)
     THEN Flatten([g \in 1..Len(shape.shapes) |->
            Pptx_collect_from_shape(shape.shapes[g], s_idx,
                                    PptxSubPath(shape_path, g - 1), all)])
     ELSE <<>>)

Pptx_walk(pres, all) ==
    Flatten([s \in 1..Len(pres.slides) |->
        Flatten([sh \in 1..Len(pres.slides[s].shapes) |->
            Pptx_collect_from_shape(pres.slides[s].shapes[sh], s - 1,
                                    PptxShapePath(sh - 1), all)])])

\* PptxProcessor._collect_segments
Pptx_collect_segments(pres) == Pptx_walk(pres, FALSE)

\* PptxTranslator._collect_segments: the shapes of each slide only, no descent
\* into group shapes; shape_path is "sh-{sh_idx}" inside the f-strings.
PptxTranslator_collect_segments(pres) ==
    Flatten([s \in 1..Len(pres.slides) |->
        Flatten([sh \in 1..Len(pres.slides[s].shapes) |->
            PptxShapeRuns(pres.slides[s].shapes[sh], s - 1, PptxShapePath(sh - 1), FALSE)])])

\* seg_id of _apply_to_shape, text frame
PptxTextApplyId(s_idx, shape_path, p_idx, r_idx) ==
    "s-" \o ToString(s_idx) \o "-" \o shape_path \o "-p-" \o ToString(p_idx)
    \o "-r-" \o ToString(r_idx)

\* seg_id of _apply_to_shape, table cell
PptxCellApplyId(s_idx, shape_path, row_idx, col_idx, p_idx, r_idx) ==
    "s-" \o ToString(s_idx) \o "-" \o shape_path \o "-tbl-row-" \o ToString(row_idx)
    \o "-col-" \o ToString(col_idx) \o "-p-" \o ToString(p_idx) \o "-r-" \o ToString(r_idx)

\* PptxProcessor._apply_to_shape: the shape after the call
RECURSIVE Pptx_apply_to_shape(_, _, _, _)
Pptx_apply_to_shape(shape, m, s_idx, shape_path) ==
    [kind |-> shape.kind,
     paragraphs |->
        IF has_text_frame(shape)
        THEN [p \in 1..Len(shape.paragraphs) |->
                [runs |-> [r \in 1..Len(shape.paragraphs[p].runs) |->
                    ApplyRun(shape.paragraphs[p].runs[r],
                             PptxTextApplyId(s_idx, shape_path, p - 1, r - 1), m)]]]
        ELSE shape.paragraphs,
     rows |->
        IF has_table(shape)
        THEN [row \in 1..Len(shape.rows) |->
                [cells |-> [col \in 1..Len(shape.rows[row].cells) |->
                    LET cell == shape.rows[row].cells[col] IN
                    [paragraphs |->
                        [p \in 1..Len(cell.paragraphs) |->
                            [runs |-> [r \in 1..Len(cell.paragraphs[p].runs) |->
                                ApplyRun(cell.paragraphs[p].runs[r],
                                         PptxCellApplyId(s_idx, shape_path, row - 1, col - 1,
                                                         p - 1, r - 1),
                                         m)]]]]]]]
        ELSE shape.rows,
     shapes |->
        IF is_group(shape)
        THEN [g \in 1..Len(shape.shapes) |->
                Pptx_apply_to_shape(shape.shapes[g], m, s_idx, PptxSubPath(shape_path, g - 1))]
        ELSE shape.shapes]

\* PptxProcessor._apply_translations: the tree after the call
Pptx_apply_translations(pres, m) ==
    [slides |->
        [s \in 1..Len(pres.slides) |->
            [shapes |-> [sh \in 1..Len(pres.slides[s].shapes) |->
                Pptx_apply_to_shape(pres.slides[s].shapes[sh], m, s - 1,
                                    PptxShapePath(sh - 1))]]]]

(* The presentations explored: up to MaxSlides slides of up to MaxShapes shapes;
   a shape is a picture, a text shape, a table shape or a group of up to
   MaxShapes children, groups nested to depth MaxDepth; at most PptxUnits
   shapes in all, groups included. *)
TextShape(runs) ==
    [kind |-> "text", paragraphs |-> <<[runs |-> runs]>>, rows |-> <<>>, shapes |-> <<>>]

TableShape(nr, nc, t) ==
    [kind |-> "table", paragraphs |-> <<>>,
     rows |-> [row \in 1..nr |-> [cells |-> [col \in 1..nc |->
                  [paragraphs |-> <<[runs |-> <<t>>]>>]]]],
     shapes |-> <<>>]

GroupShape(children) ==
    [kind |-> "group", paragraphs |-> <<>>, rows |-> <<>>, shapes |-> children]

Picture == [kind |-> "picture", paragraphs |-> <<>>, rows |-> <<>>, shapes |-> <<>>]

LeafShapes ==
    {Picture, TextShape(<<Hello>>), TextShape(<<<<" ">>, <<" ", "a">>>>),
     TableShape(1, 2, Hello), TableShape(2, 1, Hello)}

\* the number of shapes in a shape, itself included
RECURSIVE ShapeNodes(_)
ShapeNodes(shape) ==
    1 + SumOver([g \in 1..Len(shape.shapes) |-> ShapeNodes(shape.shapes[g])])

ListNodes(shapes) == SumOver([i \in 1..Len(shapes) |-> ShapeNodes(shapes[i])])

RECURSIVE ShapesOf(_, _)
RECURSIVE ShapeLists(_, _, _)
ShapesOf(depth, b) ==
    IF b < 1 THEN {}
    ELSE LeafShapes
         \cup (IF depth = 0 THEN {}
               ELSE {GroupShape(children) :
                       children \in ShapeLists(MaxShapes, depth - 1, b - 1) \ {<<>>}})

ShapeLists(n, depth, b) ==
    IF n = 0 THEN {<<>>}
    ELSE {<<>>} \cup UNION {{<<shape>> \o rest :
                                rest \in ShapeLists(n - 1, depth, b - ShapeNodes(shape))} :
                              shape \in ShapesOf(depth, b)}

RECURSIVE SlideLists(_, _)
SlideLists(n, b) ==
    IF n = 0 THEN {<<>>}
    ELSE {<<>>} \cup UNION {{<<[shapes |-> shapes]>> \o rest :
                                rest \in SlideLists(n - 1, b - ListNodes(shapes))} :
                              shapes \in ShapeLists(MaxShapes, MaxDepth, b)}

PptxDocs == {[slides |-> slides] : slides \in SlideLists(MaxSlides, PptxUnits)}

-----------------------------------------------------------------------------
(* PDF: PdfProcessor._collect_spans
   doc   = [pages], page = [blocks]      (page.get_text("dict")["blocks"])
   block = [type, lines], line = [spans] (a span is its text) *)

\* f"p-{page_idx}-b-{b_idx}-l-{l_idx}-s-{s_idx}"
PdfSpanId(page_idx, b_idx, l_idx, s_idx) ==
    "p-" \o ToString(page_idx) \o "-b-" \o ToString(b_idx) \o "-l-" \o ToString(l_idx)
    \o "-s-" \o ToString(s_idx)

\* the spans _collect_spans takes from one page (span_meta[seg_id]["page"])
Pdf_page_spans(doc, page) ==
    Flatten([b \in 1..Len(doc.pages[page].blocks) |->
        LET block == doc.pages[page].blocks[b] IN
        IF block.type # 0 THEN <<>>
        ELSE Flatten([l \in 1..Len(block.lines) |->
                Flatten([sp \in 1..Len(block.lines[l].spans) |->
                    LET text == block.lines[l].spans[sp] IN
                    IF NonBlank(text)
                    THEN <<[id |-> PdfSpanId(page - 1, b - 1, l - 1, sp - 1),
                            text |-> text]>>
                    ELSE <<>>])])])

\* PdfProcessor._collect_spans, the segments list
Pdf_collect_spans(doc) ==
    Flatten([page \in 1..Len(doc.pages) |-> Pdf_page_spans(doc, page)])

\* the header _build_translated_pdf puts on the first page
DebugHeader == <<"=== TRANSLATED TO SPANISH (DEBUG) ===">>

\* text_to_draw = f"[SP] {translated}"
text_to_draw(translated) == <<"[", "S", "P", "]", " ">> \o translated

\* the text boxes _build_translated_pdf inserts into the new page, in order:
\* the header on the first page, then one box at the bbox of each span of the
\* page whose translation is present and not blank
Pdf_page_boxes(doc, page, m) ==
    (IF page = 1 THEN <<[at |-> "header", text |-> DebugHeader]>> ELSE <<>>)
    \o Flatten([k \in 1..Len(Pdf_page_spans(doc, page)) |->
            LET seg_id == Pdf_page_spans(doc, page)[k].id IN
            IF seg_id \in DOMAIN m /\ NonBlank(m[seg_id])
            THEN <<[at |-> seg_id, text |-> text_to_draw(m[seg_id])]>>
            ELSE <<>>])

\* PdfProcessor._build_translated_pdf: per original page a new page with the
\* rasterized original as background and the text boxes
build_translated_pdf(doc, m) ==
    [pages |-> [page \in 1..Len(doc.pages) |->
                   [background |-> page, boxes |-> Pdf_page_boxes(doc, page, m)]]]

(* The PDF documents explored: up to MaxPages pages of up to MaxBlocks blocks;
   a block is an image block or a text block of one or two lines. *)
MaxPages == MaxUnits \div 2

MaxBlocks == MaxUnits \div 2

PdfBlocks ==
    {[type |-> 1, lines |-> <<>>],
     [type |-> 0, lines |-> <<[spans |-> <<Hello>>]>>],
     [type |-> 0, lines |-> <<[spans |-> <<<<" ">>, <<" ", "a">>>>]>>],
     [type |-> 0, lines |-> <<[spans |-> <<Hello>>], [spans |-> <<<<>>, Hello>>]>>]}

PdfPages == {[blocks |-> bs] : bs \in UNION {[1..k -> PdfBlocks] : k \in 0..MaxBlocks}}

PdfDocs == {[pages |-> ps] : ps \in UNION {[1..k -> PdfPages] : k \in 0..MaxPages}}

-----------------------------------------------------------------------------
(* The document walkers as a state machine: a tree is loaded, extraction runs
   (up to MaxCollects times, to compare its results), and DocxProcessor and
   PptxProcessor then reinsert a Translation Map as translate_document does,
   after one extraction. *)

\* The gateway variables while the walkers are specified on their own.
GatewayIdle ==
    /\ segments = <<>>
    /\ batch_size = 1
    /\ max_retries = 1
    /\ batches = <<>>
    /\ batch_idx = 1
    /\ attempts = 0
    /\ id_to_translation = EmptyMap
    /\ pc = "idle"
    /\ payloads = <<>>
    /\ resent = FALSE
    /\ last = NoAttempt
    /\ accepted = EmptyMap

Walkers == {"DocxProcessor", "PptxProcessor", "PptxTranslator", "PdfProcessor"}

TreesOf(w) ==
    CASE w = "DocxProcessor" -> DocxDocs
      [] w = "PptxProcessor" -> PptxDocs
      [] w = "PptxTranslator" -> PptxDocs
      [] w = "PdfProcessor" -> PdfDocs

WalkerInit ==
    /\ walker \in Walkers
    /\ tree \in TreesOf(walker)
    /\ tree0 = tree
    /\ extracted = <<>>
    /\ first_ids = <<>>
    /\ n_collect = 0
    /\ applied = NoMap
    /\ GatewayIdle
    /\ PipelineIdle
    /\ MainIdle
    /\ RenderIdle
    /\ WorkersIdle

IdsOf(segs) == [i \in 1..Len(segs) |-> segs[i].id]

\* Mutant: extraction consumes what it walks.
TreeAfterCollectConsuming(doc) ==
    IF "paragraphs" \in DOMAIN doc THEN [doc EXCEPT !.paragraphs = <<>>]
    ELSE IF "slides" \in DOMAIN doc THEN [doc EXCEPT !.slides = <<>>]
    ELSE [doc EXCEPT !.pages = <<>>]

\* The tree after an extraction: the collectors read run.text (span["text"])
\* and assign no attribute of the tree.
TreeAfterCollect(doc) == doc

\* the bookkeeping common to the extractions
Collected(segs) ==
    /\ applied = NoMap
    /\ n_collect < MaxCollects
    /\ extracted' = segs
    /\ tree' = TreeAfterCollect(tree)
    /\ first_ids' = IF n_collect = 0 THEN IdsOf(segs) ELSE first_ids
    /\ n_collect' = n_collect + 1
    /\ UNCHANGED <<walker, tree0, applied, gvars, xvars>>

DocxCollect ==
    /\ walker = "DocxProcessor"
    /\ Collected(Docx_collect_segments(tree))

PptxCollect ==
    /\ walker = "PptxProcessor"
    /\ Collected(Pptx_collect_segments(tree))

PptxTranslatorCollect ==
    /\ walker = "PptxTranslator"
    /\ Collected(PptxTranslator_collect_segments(tree))

PdfCollect ==
    /\ walker = "PdfProcessor"
    /\ Collected(Pdf_collect_spans(tree))

\* every run the reinsertion passes visit, blank ones included, with its id
AllRuns(w, doc) ==
    IF w = "DocxProcessor" THEN Docx_walk(doc, TRUE) ELSE Pptx_walk(doc, TRUE)

(* The Translation Maps reinserted: any set of the ids of the runs visited,
   each mapped to the run's own text (identity) or all to one text of
   TransTexts. *)
TranslationMaps(runs) ==
    {[x \in {runs[i].id : i \in S} |->
        LET i == CHOOSE j \in S : runs[j].id = x IN
        IF identity THEN runs[i].text ELSE t] :
     S \in SUBSET (1..Len(runs)), identity \in BOOLEAN, t \in TransTexts}

\* the bookkeeping common to the reinsertions
Applied(m, after) ==
    /\ applied = NoMap
    /\ n_collect = 1
    /\ tree' = after
    /\ applied' = [done |-> TRUE, map |-> m]
    /\ UNCHANGED <<walker, tree0, extracted, first_ids, n_collect, gvars, xvars>>

DocxApply ==
    /\ walker = "DocxProcessor"
    /\ \E m \in TranslationMaps(AllRuns(walker, tree)) :
          Applied(m, Docx_apply_text_translations(tree, m))

PptxApply ==
    /\ walker = "PptxProcessor"
    /\ \E m \in TranslationMaps(AllRuns(walker, tree)) :
          Applied(m, Pptx_apply_translations(tree, m))

WalkerNext ==
    \/ DocxCollect
    \/ DocxApply
    \/ PptxCollect
    \/ PptxApply
    \/ PptxTranslatorCollect
    \/ PdfCollect

SpecWalker == WalkerInit /\ [][WalkerNext]_vars

-----------------------------------------------------------------------------
(* File names: a name is the sequence of its characters, so that
   os.path.splitext and str.lower are computed. *)

NameDocx == <<"a", ".", "d", "o", "c", "x">>

NameDotted == <<"v", ".", "1", ".", "d", "o", "c", "x">>

NamePptxUpper == <<"b", ".", "P", "P", "T", "X">>

NamePdf == <<"c", ".", "p", "d", "f">>

NameTxt == <<"d", ".", "t", "x", "t">>

FileNames == {NameDocx, NameDotted, NamePptxUpper, NamePdf, NameTxt}

ExtDocx == <<".", "d", "o", "c", "x">>

ExtPptx == <<".", "p", "p", "t", "x">>

ExtPdf == <<".", "p", "d", "f">>

\* suffix="_fr"
SuffixFr == <<"_", "f", "r">>

\* the position where os.path.splitext cuts: the last period that has a
\* character other than a period before it; 0 when there is none
SplitPoint(name) ==
    LET dots == {k \in 1..Len(name) :
                    name[k] = "." /\ \E j \in 1..(k - 1) : name[j] # "."}
    IN IF dots = {} THEN 0 ELSE CHOOSE k \in dots : \A j \in dots : j <= k

\* os.path.splitext(name) = (base, ext)
splitext(name) ==
    IF SplitPoint(name) = 0 THEN <<name, <<>>>>
    ELSE <<SubSeq(name, 1, SplitPoint(name) - 1), SubSeq(name, SplitPoint(name), Len(name))>>

LowerChar(c) ==
    CASE c = "D" -> "d" [] c = "O" -> "o" [] c = "C" -> "c" [] c = "X" -> "x"
      [] c = "P" -> "p" [] c = "T" -> "t" [] c = "F" -> "f"
      [] OTHER -> c

\* str.lower()
lower(t) == [i \in 1..Len(t) |-> LowerChar(t[i])]

\* Mutant: the suffix goes after the extension.
get_translated_blob_name_appending(src_blob_name, suffix) == src_blob_name \o suffix

\* UtilityFunctions.get_translated_blob_name: f"{base}{suffix}{ext}"
get_translated_blob_name(src_blob_name, suffix) ==
    splitext(src_blob_name)[1] \o suffix \o splitext(src_blob_name)[2]

-----------------------------------------------------------------------------
(* One call of translate_document.
   bytes    = [fmt, tree, images, saved]: what a file holds; saved tells the
              output of save() from bytes that were never opened and saved
   document = [fmt, tree, images, saved]: the opened document
   image    = [src, drawn]: drawn is "none" for the embedded original *)

MaxImages == 2

Image(n) == [src |-> n, drawn |-> "none"]

ImageLists == {[i \in 1..k |-> Image(i)] : k \in 0..MaxImages}

Garbage == [fmt |-> "garbage", tree |-> <<>>, images |-> <<>>, saved |-> FALSE]

BlankDoc == [paragraphs |-> <<[runs |-> <<<<" ">>>>]>>, tables |-> <<>>]

DocxContents ==
    {[fmt |-> "docx", tree |-> t, images |-> imgs, saved |-> FALSE] :
        t \in {HelloDoc, BlankDoc}, imgs \in ImageLists}

HelloPres == [slides |-> <<[shapes |-> <<GroupShape(<<TextShape(<<Hello>>)>>)>>]>>]

PicturePres == [slides |-> <<[shapes |-> <<Picture>>]>>]

PptxContents ==
    {[fmt |-> "pptx", tree |-> t, images |-> <<>>, saved |-> FALSE] :
        t \in {HelloPres, PicturePres}}

HelloPdf == [pages |-> <<[blocks |-> <<[type |-> 0, lines |-> <<[spans |-> <<Hello>>]>>]>>]>>]

ScannedPdf == [pages |-> <<[blocks |-> <<[type |-> 1, lines |-> <<>>]>>]>>]

\* a scanned page followed by a page with two text spans
TwoPagePdf ==
    [pages |-> <<[blocks |-> <<[type |-> 1, lines |-> <<>>]>>],
                 [blocks |-> <<[type |-> 0,
                                lines |-> <<[spans |-> <<Hello, <<" ">>, <<"a">>>>]>>]>>]>>]

PdfContents ==
    {[fmt |-> "pdf", tree |-> t, images |-> <<>>, saved |-> FALSE] :
        t \in {HelloPdf, ScannedPdf, TwoPagePdf}}

Processors == {"DocxProcessor", "PptxProcessor", "PdfProcessor", "PdfTranslator"}

\* what a processor opens
FormatOf(proc) ==
    CASE proc = "DocxProcessor" -> "docx"
      [] proc = "PptxProcessor" -> "pptx"
      [] proc = "PdfProcessor" -> "pdf"
      [] proc = "PdfTranslator" -> "pdf"

ContentsOf(fmt) ==
    CASE fmt = "docx" -> DocxContents
      [] fmt = "pptx" -> PptxContents
      [] fmt = "pdf" -> PdfContents

NamesOf(fmt) ==
    CASE fmt = "docx" -> {NameDocx, NameDotted}
      [] fmt = "pptx" -> {NamePptxUpper}
      [] fmt = "pdf" -> {NamePdf}

\* the state of the locals when translate_document is entered
Entered(proc, name, bytes) ==
    /\ processor' = proc
    /\ filename' = name
    /\ content_bytes' = bytes
    /\ td_doc' = NoBytes
    /\ ppc' = IF proc = "PdfTranslator" THEN "convert" ELSE "load"
    /\ td_segments' = <<>>
    /\ td_map' = NoMap
    /\ result' = NoBytes
    /\ out_name' = <<>>
    /\ trace' = <<>>
    /\ gateway_calls' = 0
    /\ img_log' = <<>>

PipelineInit ==
    /\ processor \in Processors
    /\ filename \in NamesOf(FormatOf(processor))
    /\ content_bytes \in ContentsOf(FormatOf(processor)) \cup {Garbage}
    /\ td_doc = NoBytes
    /\ ppc = IF processor = "PdfTranslator" THEN "convert" ELSE "load"
    /\ td_segments = <<>>
    /\ td_map = NoMap
    /\ result = NoBytes
    /\ out_name = <<>>
    /\ trace = <<>>
    /\ gateway_calls = 0
    /\ img_log = <<>>
    /\ GatewayIdle
    /\ WalkerIdle
    /\ MainIdle
    /\ RenderIdle
    /\ WorkersIdle

\* the format the document library is asked to open: PdfTranslator hands the
\* converted bytes to DocxTranslator
Opens(proc) == IF proc = "PdfTranslator" THEN "docx" ELSE FormatOf(proc)

\* self._collect_segments(doc) / self._collect_spans(doc)
CollectOf(proc, t) ==
    CASE Opens(proc) = "docx" -> Docx_collect_segments(t)
      [] Opens(proc) = "pptx" -> Pptx_collect_segments(t)
      [] Opens(proc) = "pdf" -> Pdf_collect_spans(t)

\* self._apply_text_translations / self._apply_translations
ApplyOf(proc, t, m) ==
    IF Opens(proc) = "docx" THEN Docx_apply_text_translations(t, m)
    ELSE Pptx_apply_translations(t, m)

\* Document(doc_stream) / Presentation(pres_stream) / fitz.open(...): raises on
\* bytes of another kind
Load ==
    /\ ppc = "load"
    /\ IF content_bytes.fmt = Opens(processor)
       THEN /\ td_doc' = content_bytes
            /\ trace' = Append(trace, "load")
            /\ ppc' = "extract"
       ELSE /\ ppc' = "raised"
            /\ UNCHANGED <<td_doc, trace>>
    /\ UNCHANGED <<processor, filename, content_bytes, td_segments, td_map, result,
                   out_name, gateway_calls, img_log>>
    /\ UNCHANGED <<gvars, wvars, mvars, rvars, kvars>>

\* Mutant: the gateway is called for an empty segment list too.
AfterExtractAlwaysTranslate(proc, segs) == "translate"

\* "if segments:" (DOCX) / "if not segments: return content_bytes" (PPTX, PDF)
AfterExtract(proc, segs) ==
    IF segs # <<>> THEN "translate"
    ELSE IF Opens(proc) = "docx" THEN "images" ELSE "returned"

\* segments = collect(doc); without segments DocxProcessor goes on to the
\* images, PptxProcessor and PdfProcessor return content_bytes
Extract ==
    /\ ppc = "extract"
    /\ td_segments' = CollectOf(processor, td_doc.tree)
    /\ trace' = Append(trace, "extract")
    /\ ppc' = AfterExtract(processor, td_segments')
    /\ result' = IF ppc' = "returned" THEN content_bytes ELSE result
    /\ UNCHANGED <<processor, filename, content_bytes, td_doc, td_map, out_name,
                   gateway_calls, img_log>>
    /\ UNCHANGED <<gvars, wvars, mvars, rvars, kvars>>

\* the map with key id -> t for every segment
FullMap(segs, t) == [x \in Range(IdsOf(segs)) |-> t]

\* what self.oai_client.translate_segments(segments) can do: raise, or return
\* a map
GatewayOutcomes(segs) ==
    {[raised |-> TRUE, map |-> EmptyMap]}
    \cup {[raised |-> FALSE, map |-> FullMap(segs, t)] : t \in TransTexts}

\* id_to_translation = self.oai_client.translate_segments(segments, ...)
Translate(outcome) ==
    /\ ppc = "translate"
    /\ gateway_calls' = gateway_calls + 1
    /\ IF outcome.raised
       THEN /\ ppc' = "raised"
            /\ UNCHANGED <<td_map, trace>>
       ELSE /\ td_map' = [done |-> TRUE, map |-> outcome.map]
            /\ trace' = Append(trace, "translate")
            /\ ppc' = IF processor = "PdfProcessor" THEN "build" ELSE "reinsert"
    /\ UNCHANGED <<processor, filename, content_bytes, td_doc, td_segments, result,
                   out_name, img_log>>
    /\ UNCHANGED <<gvars, wvars, mvars, rvars, kvars>>

\* Mutant: the document is saved right after the text, the images are skipped.
AfterReinsertSkipImages(proc) == "save"

\* what follows reinsertion: "2) Images via GPT-4.1 vision" in the DOCX classes,
\* the save in PptxProcessor
AfterReinsert(proc) == IF Opens(proc) = "docx" THEN "images" ELSE "save"

\* self._apply_text_translations(doc, id_to_translation)
Reinsert ==
    /\ ppc = "reinsert"
    /\ td_doc' = [td_doc EXCEPT !.tree = ApplyOf(processor, td_doc.tree, td_map.map)]
    /\ trace' = Append(trace, "reinsert")
    /\ ppc' = AfterReinsert(processor)
    /\ UNCHANGED <<processor, filename, content_bytes, td_segments, td_map, result,
                   out_name, gateway_calls, img_log>>
    /\ UNCHANGED <<gvars, wvars, mvars, rvars, kvars>>

(* What the vision oracle and the renderer do for one image:
   vision_raises  translate_image_to_language raises
   vision_empty   it returns ""
   vision_blank   it returns whitespace only
   open_fails     _render_translated_image cannot open the original and returns
                  original_bytes
   render_raises  _render_translated_image raises
   text, table    it returns a new image, drawn as wrapped text or as a table *)
ImageOutcomes ==
    {"vision_raises", "vision_empty", "vision_blank", "open_fails", "render_raises",
     "text", "table"}

\* translated_text of an image whose vision call returned
VisionText(o) ==
    CASE o = "vision_empty" -> <<>>
      [] o = "vision_blank" -> <<" ">>
      [] OTHER -> <<"t">>

\* new_bytes = self._render_translated_image(original_bytes, translated_text, ...)
RenderedImage(blob, o) ==
    IF o = "open_fails" THEN blob
    ELSE [src |-> blob.src, drawn |-> IF o = "table" THEN "table" ELSE "text"]

\* Mutant: an empty answer of the oracle is rendered too.
TranslateImageBlanking(blob, o) ==
    IF o = "vision_raises" THEN blob
    ELSE IF o = "render_raises" THEN blob
    ELSE RenderedImage(blob, o)

\* One turn of the loop of _translate_images_in_doc: the blob of the image part
\* after it.
TranslateImage(blob, o) ==
    IF o = "vision_raises" THEN blob
    ELSE IF ~NonBlank(VisionText(o)) THEN blob
    ELSE IF o = "render_raises" THEN blob
    ELSE RenderedImage(blob, o)

\* self._translate_images_in_doc(doc, ...): the whole loop over the images
Images(env) ==
    /\ ppc = "images"
    /\ td_doc' = [td_doc EXCEPT !.images =
                     [i \in 1..Len(td_doc.images) |-> TranslateImage(td_doc.images[i], env[i])]]
    /\ img_log' = [i \in 1..Len(td_doc.images) |->
                     [outcome |-> env[i], before |-> td_doc.images[i],
                      after |-> TranslateImage(td_doc.images[i], env[i])]]
    /\ trace' = Append(trace, "images")
    /\ ppc' = "save"
    /\ UNCHANGED <<processor, filename, content_bytes, td_segments, td_map, result,
                   out_name, gateway_calls>>
    /\ UNCHANGED <<gvars, wvars, mvars, rvars, kvars>>

\* doc.save(out_stream); return out_stream.read()
Save(ok) ==
    /\ ppc = "save"
    /\ IF ok
       THEN /\ result' = [td_doc EXCEPT !.saved = TRUE]
            /\ trace' = Append(trace, "save")
            /\ ppc' = "returned"
       ELSE /\ ppc' = "raised"
            /\ UNCHANGED <<result, trace>>
    /\ UNCHANGED <<processor, filename, content_bytes, td_doc, td_segments, td_map,
                   out_name, gateway_calls, img_log>>
    /\ UNCHANGED <<gvars, wvars, mvars, rvars, kvars>>

\* PdfProcessor: translated_bytes = self._build_translated_pdf(...)
Build(ok) ==
    /\ ppc = "build"
    /\ IF ok
       THEN /\ result' = [fmt |-> "pdf",
                          tree |-> build_translated_pdf(td_doc.tree, td_map.map),
                          images |-> <<>>, saved |-> TRUE]
            /\ trace' = Append(trace, "build")
            /\ ppc' = "returned"
       ELSE /\ ppc' = "raised"
            /\ UNCHANGED <<result, trace>>
    /\ UNCHANGED <<processor, filename, content_bytes, td_doc, td_segments, td_map,
                   out_name, gateway_calls, img_log>>
    /\ UNCHANGED <<gvars, wvars, mvars, rvars, kvars>>

\* PdfTranslator.translate_document, step 1: _pdf_bytes_to_docx_bytes; when it
\* raises, content_bytes is returned; otherwise DocxTranslator.translate_document
\* is entered with the converted bytes
Convert(ok, docx_bytes) ==
    /\ ppc = "convert"
    /\ IF ok /\ content_bytes.fmt = "pdf"
       THEN /\ content_bytes' = docx_bytes
            /\ trace' = Append(trace, "convert")
            /\ ppc' = "load"
            /\ UNCHANGED result
       ELSE /\ result' = content_bytes
            /\ ppc' = "returned"
            /\ UNCHANGED <<content_bytes, trace>>
    /\ UNCHANGED <<processor, filename, td_doc, td_segments, td_map, out_name,
                   gateway_calls, img_log>>
    /\ UNCHANGED <<gvars, wvars, mvars, rvars, kvars>>

\* the caller of a translate_document that returned names the output:
\* out_name = utils.get_translated_blob_name(file, suffix="_fr")
NameOutput ==
    /\ ppc = "returned"
    /\ mpc = "idle"
    /\ out_name' = get_translated_blob_name(filename, SuffixFr)
    /\ ppc' = "named"
    /\ UNCHANGED <<processor, filename, content_bytes, td_doc, td_segments, td_map,
                   result, trace, gateway_calls, img_log>>
    /\ UNCHANGED <<gvars, wvars, mvars, rvars, kvars>>

PipelineNext ==
    \/ Load
    \/ Extract
    \/ \E outcome \in GatewayOutcomes(td_segments) : Translate(outcome)
    \/ Reinsert
    \/ \E env \in [1..Len(td_doc.images) -> ImageOutcomes] : Images(env)
    \/ \E ok \in BOOLEAN : Save(ok)
    \/ \E ok \in BOOLEAN : Build(ok)
    \/ \E ok \in BOOLEAN, docx_bytes \in DocxContents : Convert(ok, docx_bytes)
    \/ NameOutput

SpecPipeline == PipelineInit /\ [][PipelineNext]_vars

-----------------------------------------------------------------------------
(* The loop of main() over the files to process, with the status log *)

MaxFiles == 2

\* what get_files_to_process can return: blob names, each once
MainNames == {NameDocx, NamePptxUpper, NamePdf}

MainFileLists ==
    {f \in UNION {[1..n -> MainNames] : n \in 0..MaxFiles} :
        \A i \in DOMAIN f, j \in DOMAIN f : i # j => f[i] # f[j]}

Statuses ==
    {"SUCCESS", "TRANSLATION_FAILED", "SKIPPED_UNSUPPORTED",
     "SKIPPED_ALREADY_TRANSLATED", "DOWNLOAD_FAILED", "UPLOAD_FAILED"}

Row(blob_name, status) == [blob_name |-> blob_name, status |-> status]

\* a record an earlier run left in the log
OldRow == Row(NameTxt, "SUCCESS")

\* _download_existing_status: "" when the blob cannot be read, for any reason
download_existing_status(log, read_ok) == IF read_ok THEN log ELSE <<>>

\* the content log_status uploads: the old content (after the header, which a
\* log without records consists of) followed by the new row
log_content(log, row, read_ok) == download_existing_status(log, read_ok) \o <<row>>

\* output_manager.log_status(blob_name, status, details): the blob is
\* overwritten with the new content unless the upload raises
log_status(blob_name, status, read_ok, write_ok) ==
    /\ status_log' = IF write_ok
                     THEN log_content(status_log, Row(blob_name, status), read_ok)
                     ELSE status_log
    /\ last_log' = [called |-> TRUE, ok |-> write_ok, before |-> status_log,
                    after |-> status_log', row |-> Row(blob_name, status)]
    /\ written' = Append(written, [blob_name |-> blob_name, status |-> status,
                                   ok |-> write_ok])

\* continue: the next file, or the end of the loop
Continue ==
    /\ file_idx' = file_idx + 1
    /\ mpc' = IF file_idx + 1 > Len(file_list) THEN "end" ELSE "loop"

\* the names of the translated outputs of a list of files: what the output
\* container holds after a run in which every file succeeded
OutputNames(files) ==
    {get_translated_blob_name(files[i], SuffixFr) : i \in 1..Len(files)}

\* main starts with an output container that is empty or left by such a run
MainInit ==
    /\ file_list \in MainFileLists
    /\ file_idx = 1
    /\ mpc = IF file_list = <<>> THEN "end" ELSE "loop"
    /\ outputs \in {{}, OutputNames(file_list)}
    /\ uploads = <<>>
    /\ status_log \in {<<>>, <<OldRow>>}
    /\ written = <<>>
    /\ last_log = NoLogCall
    /\ cur = NoFile
    /\ GatewayIdle
    /\ WalkerIdle
    /\ PipelineIdle
    /\ RenderIdle
    /\ WorkersIdle

\* the processor main picks for an extension, "none" for an unsupported one
ProcessorFor(extension) ==
    IF extension = ExtPptx THEN "PptxProcessor"
    ELSE IF extension = ExtDocx THEN "DocxProcessor"
    ELSE "none"

\* log_status in the try block followed by continue; an exception of the call
\* reaches the except clause of the loop body
LogAndContinue(status, read_ok, write_ok) ==
    /\ log_status(file_list[file_idx], status, read_ok, write_ok)
    /\ IF write_ok THEN Continue ELSE (mpc' = "handler" /\ UNCHANGED file_idx)

\* utils.translated_output_exists(file, suffix="_fr"): whether the output
\* container holds the translated name; False when blob_client.exists() raises
translated_output_exists(src_blob_name, suffix, exists_ok) ==
    /\ exists_ok
    /\ get_translated_blob_name(src_blob_name, suffix)
          \in outputs \cup {uploads[i].name : i \in 1..Len(uploads)}

\* One iteration up to the call of translate_document: the check for an
\* existing output, the download and the dispatch on the extension.
Iterate(exists_ok, download_ok, bytes, read_ok, write_ok) ==
    /\ mpc = "loop"
    /\ file_idx <= Len(file_list)
    /\ LET file == file_list[file_idx]
           proc == ProcessorFor(lower(splitext(file)[2]))
           \* history: an existing output was not reported in this run
           unrep == \/ cur.unreported
                    \/ /\ ~exists_ok
                       /\ translated_output_exists(file, SuffixFr, TRUE)
       IN  IF translated_output_exists(file, SuffixFr, exists_ok)
           THEN /\ LogAndContinue("SKIPPED_ALREADY_TRANSLATED", read_ok, write_ok)
                /\ cur' = [NoFile EXCEPT !.unreported = unrep, !.file = file, !.skipped = TRUE,
                                         !.failed = IF write_ok THEN "none" ELSE "log"]
                /\ UNCHANGED pvars
           ELSE IF ~download_ok
           THEN /\ mpc' = "handler"
                /\ cur' = [NoFile EXCEPT !.unreported = unrep, !.file = file, !.failed = "download"]
                /\ UNCHANGED <<file_idx, status_log, last_log, written, pvars>>
           ELSE IF proc # "none"
           THEN /\ bytes \in ContentsOf(FormatOf(proc)) \cup {Garbage}
                /\ Entered(proc, file, bytes)
                /\ mpc' = "call"
                /\ cur' = [NoFile EXCEPT !.unreported = unrep, !.file = file, !.downloaded = TRUE]
                /\ UNCHANGED <<file_idx, status_log, last_log, written>>
           ELSE /\ LogAndContinue("SKIPPED_UNSUPPORTED", read_ok, write_ok)
                /\ cur' = [NoFile EXCEPT !.unreported = unrep, !.file = file, !.downloaded = TRUE,
                                         !.failed = IF write_ok THEN "none" ELSE "log"]
                /\ UNCHANGED pvars
    /\ UNCHANGED <<file_list, outputs, uploads>>
    /\ UNCHANGED <<gvars, wvars, rvars, kvars>>

\* translate_document raised: control passes to the except clause
Raised ==
    /\ mpc = "call"
    /\ ppc = "raised"
    /\ mpc' = "handler"
    /\ cur' = [cur EXCEPT !.translate = IF gateway_calls > 0 /\ ~td_map.done
                                        THEN "gateway_raised" ELSE "raised",
                          !.failed = "translate"]
    /\ UNCHANGED <<file_list, file_idx, outputs, uploads, status_log, written, last_log,
                   pvars>>
    /\ UNCHANGED <<gvars, wvars, rvars, kvars>>

\* Mutant: the upload is reached after an exception too.
MayUploadAfterRaise(p) == p \in {"returned", "raised"}

\* the statements after the call in the try block run only when
\* translate_document returned
MayUpload(p) == p = "returned"

\* translate_document returned: out_name, upload_translated_file, log SUCCESS
Returned(upload_ok, read_ok, write_ok) ==
    /\ mpc = "call"
    /\ MayUpload(ppc)
    /\ out_name' = get_translated_blob_name(file_list[file_idx], SuffixFr)
    /\ ppc' = "named"
    /\ IF upload_ok
       THEN /\ uploads' = Append(uploads, [name |-> out_name', data |-> result,
                                           file |-> file_list[file_idx]])
            /\ cur' = [cur EXCEPT !.translate = ppc, !.uploaded = TRUE,
                                  !.failed = IF write_ok THEN "none" ELSE "log"]
            /\ LogAndContinue("SUCCESS", read_ok, write_ok)
       ELSE /\ mpc' = "handler"
            /\ cur' = [cur EXCEPT !.translate = ppc, !.failed = "upload"]
            /\ UNCHANGED <<uploads, file_idx, status_log, written, last_log>>
    /\ UNCHANGED <<processor, filename, content_bytes, td_doc, td_segments, td_map,
                   result, trace, gateway_calls, img_log>>
    /\ UNCHANGED <<file_list, outputs>>
    /\ UNCHANGED <<gvars, wvars, rvars, kvars>>

\* except Exception as e: log_status(file, "TRANSLATION_FAILED", str(e));
\* continue. An exception of this log_status leaves the for loop and is caught
\* by the outer except.
Handler(read_ok, write_ok) ==
    /\ mpc = "handler"
    /\ log_status(file_list[file_idx], "TRANSLATION_FAILED", read_ok, write_ok)
    /\ IF write_ok THEN Continue ELSE (mpc' = "end" /\ UNCHANGED file_idx)
    /\ UNCHANGED <<file_list, outputs, uploads, cur, pvars>>
    /\ UNCHANGED <<gvars, wvars, rvars, kvars>>

MainNext ==
    \/ \E exists_ok \in BOOLEAN, download_ok \in BOOLEAN,
          bytes \in DocxContents \cup PptxContents \cup {Garbage},
          read_ok \in BOOLEAN, write_ok \in BOOLEAN :
          Iterate(exists_ok, download_ok, bytes, read_ok, write_ok)
    \/ Load
    \/ Extract
    \/ \E outcome \in GatewayOutcomes(td_segments) : Translate(outcome)
    \/ Reinsert
    \/ \E env \in [1..Len(td_doc.images) -> ImageOutcomes] : Images(env)
    \/ \E ok \in BOOLEAN : Save(ok)
    \/ Raised
    \/ \E upload_ok \in BOOLEAN, read_ok \in BOOLEAN, write_ok \in BOOLEAN :
          Returned(upload_ok, read_ok, write_ok)
    \/ \E read_ok \in BOOLEAN, write_ok \in BOOLEAN : Handler(read_ok, write_ok)

SpecMain == MainInit /\ [][MainNext]_vars

-----------------------------------------------------------------------------
(* Redrawing an image: _parse_markdown_table and _render_translated_image *)

MaxLines == 3

\* margin = 20
Margin == 20

\* line_height: ascent + descent + 4 of the default font, or 16
LineHeights == {15, 16}

\* heights of original images, from one no table row fits in to one with room
\* for MaxLines rows
Heights == {50, 80, 120}

\* position of the first c in s, 0 when there is none
IndexOf(s, c) ==
    IF \E i \in 1..Len(s) : s[i] = c
    THEN CHOOSE i \in 1..Len(s) : s[i] = c /\ \A j \in 1..(i - 1) : s[j] # c
    ELSE 0

\* s.split(sep)
RECURSIVE split(_, _)
split(s, sep) ==
    IF IndexOf(s, sep) = 0 THEN <<s>>
    ELSE <<SubSeq(s, 1, IndexOf(s, sep) - 1)>>
         \o split(SubSeq(s, IndexOf(s, sep) + 1, Len(s)), sep)

\* text.splitlines()
splitlines(text) ==
    LET parts == split(text, "\n")
    IN  IF parts[Len(parts)] = <<>> THEN SubSeq(parts, 1, Len(parts) - 1) ELSE parts

\* sep.join(lines)
RECURSIVE join(_, _)
join(lines, sep) ==
    IF Len(lines) = 0 THEN <<>>
    ELSE IF Len(lines) = 1 THEN lines[1]
    ELSE lines[1] \o <<sep>> \o join(Tail(lines), sep)

\* s.strip(c) for one character c
RECURSIVE strip_char(_, _)
strip_char(s, c) ==
    IF Len(s) > 0 /\ s[1] = c THEN strip_char(Tail(s), c)
    ELSE IF Len(s) > 0 /\ s[Len(s)] = c THEN strip_char(SubSeq(s, 1, Len(s) - 1), c)
    ELSE s

\* stripped.startswith("|") and "|" in stripped[1:]
IsTableLine(stripped) ==
    /\ Len(stripped) > 0
    /\ stripped[1] = "|"
    /\ \E i \in 2..Len(stripped) : stripped[i] = "|"

\* the table lines, each closed with "|"
TableLines(lines) ==
    Flatten([i \in 1..Len(lines) |->
                IF IsTableLine(Strip(lines[i]))
                THEN IF Strip(lines[i])[Len(Strip(lines[i]))] # "|"
                     THEN <<Append(Strip(lines[i]), "|")>>
                     ELSE <<Strip(lines[i])>>
                ELSE <<>>])

\* the non-empty lines before the first table line
TitleLines(lines) ==
    Flatten([i \in 1..Len(lines) |->
                IF /\ \A j \in 1..i : ~IsTableLine(Strip(lines[j]))
                   /\ Strip(lines[i]) # <<>>
                THEN <<Strip(lines[i])>>
                ELSE <<>>])

\* parts = [p.strip() for p in ln.strip().strip("|").split("|")]
Parts(ln) ==
    [i \in 1..Len(split(strip_char(Strip(ln), "|"), "|")) |->
        Strip(split(strip_char(Strip(ln), "|"), "|")[i])]

\* is_sep = all(not p or set(p) <= {"-", ":"} for p in parts)
IsSep(parts) ==
    \A i \in 1..Len(parts) :
        parts[i] = <<>> \/ \A k \in 1..Len(parts[i]) : parts[i][k] \in {"-", ":"}

ParsedRows(lines) ==
    Flatten([i \in 1..Len(TableLines(lines)) |->
                IF IsSep(Parts(TableLines(lines)[i]))
                THEN <<>>
                ELSE <<Parts(TableLines(lines)[i])>>])

\* Mutant: rows with another number of cells than the first are kept.
parse_markdown_table_ragged(translated_text) ==
    [title_lines |-> TitleLines(splitlines(translated_text)),
     rows |-> ParsedRows(splitlines(translated_text))]

\* _parse_markdown_table(translated_text): title_lines and the rows that have
\* as many cells as the first one
parse_markdown_table(translated_text) ==
    LET lines == splitlines(translated_text)
        parsed_rows == ParsedRows(lines)
    IN  [title_lines |-> TitleLines(lines),
         rows |-> IF parsed_rows = <<>> THEN <<>>
                  ELSE Flatten([i \in 1..Len(parsed_rows) |->
                                   IF Len(parsed_rows[i]) = Len(parsed_rows[1])
                                   THEN <<parsed_rows[i]>>
                                   ELSE <<>>])]

\* y after the loop that draws the title lines
RECURSIVE YAfterTitles(_, _, _, _)
YAfterTitles(n, y, height, line_height) ==
    IF n = 0 \/ y + line_height > height - Margin THEN y
    ELSE YAfterTitles(n - 1, y + line_height + 4, height, line_height)

\* table_top = y
TableTop(title_lines, height, line_height) ==
    IF title_lines = <<>> THEN Margin
    ELSE YAfterTitles(Len(title_lines), Margin, height, line_height) + 8

\* the rows drawn before "if row_bottom > height - margin: break", with
\* row_height = line_height + 10
RowsDrawn(rows, table_top, height, line_height) ==
    {r \in 1..Len(rows) :
        \A k \in 1..r : table_top + k * (line_height + 10) <= height - Margin}

\* the cells draw.rectangle is called for
Rectangles(parsed, height, line_height) ==
    {<<r, c>> : r \in RowsDrawn(parsed.rows,
                                TableTop(parsed.title_lines, height, line_height),
                                height, line_height),
                c \in 1..Len(parsed.rows[1])}

\* the lines the oracle's answers are made of
LineAB == <<"|", " ", "A", " ", "|", " ", "B", " ", "|">>

LineSep == <<"|", "-", "-", "-", "|", "-", "-", "-", "|">>

Line12 == <<"|", " ", "1", " ", "|", " ", "2", " ", "|">>

LineOpen == <<"|", " ", "3", " ", "|", " ", "4">>

LineOne == <<"|", " ", "5", " ", "|">>

LineTitle == <<"T", "i", "t", "r", "e">>

LineBlank == <<>>

LineEmptyCells == <<"|", " ", "|", " ", "|">>

RenderLines ==
    {LineAB, LineSep, Line12, LineOpen, LineOne, LineTitle, LineBlank, LineEmptyCells}

\* answers of the vision oracle: up to MaxLines lines joined by newlines
RenderTexts ==
    {join(ls, "\n") : ls \in UNION {[1..n -> RenderLines] : n \in 1..MaxLines}}

\* the table of the example
ExampleTable == join(<<LineAB, LineSep, Line12>>, "\n")

RenderInit ==
    /\ rtext \in {t \in RenderTexts : NonBlank(t)}
    /\ rheight \in Heights
    /\ rline \in LineHeights
    /\ rmode = "none"
    /\ rects = {}
    /\ rpc = "start"
    /\ GatewayIdle
    /\ WalkerIdle
    /\ PipelineIdle
    /\ MainIdle
    /\ WorkersIdle

\* _render_translated_image for an image that opens: table mode first, else
\* wrapped text
Render ==
    /\ rpc = "start"
    /\ LET parsed == parse_markdown_table(rtext)
       IN  IF parsed.rows # <<>>
           THEN /\ rmode' = "table"
                /\ rects' = Rectangles(parsed, rheight, rline)
           ELSE /\ rmode' = "text"
                /\ rects' = {}
    /\ rpc' = "done"
    /\ UNCHANGED <<rtext, rheight, rline>>
    /\ UNCHANGED <<gvars, wvars, pvars, mvars, kvars>>

RenderNext == Render

SpecRender == RenderInit /\ [][RenderNext]_vars

-----------------------------------------------------------------------------
(* Worker instances that process distinct documents in parallel and call
   OutputManager.log_status on the same status blob. log_status is three
   steps: download the existing content, append the row in memory, upload
   the result with overwrite=True. *)

MaxWorkers == 2

\* the document of each worker
WorkerDocs == <<NameDocx, NamePptxUpper, NamePdf, NameDotted>>

\* the tags a worker logs for its document
WorkerStatuses == {"SUCCESS", "TRANSLATION_FAILED", "SKIPPED_ALREADY_TRANSLATED"}

WorkersInit ==
    /\ shared_log \in {<<>>, <<OldRow>>}
    /\ \E st \in [1..MaxWorkers -> WorkerStatuses] :
          wk = [w \in 1..MaxWorkers |->
                   [wpc |-> "start", old_content |-> <<>>, read_ok |-> TRUE,
                    row |-> Row(WorkerDocs[w], st[w])]]
    /\ GatewayIdle
    /\ WalkerIdle
    /\ PipelineIdle
    /\ MainIdle
    /\ RenderIdle

\* old_content = self._download_existing_status()
WorkerDownload(w, read_ok) ==
    /\ wk[w].wpc = "start"
    /\ wk' = [wk EXCEPT ![w].wpc = "downloaded",
                        ![w].read_ok = read_ok,
                        ![w].old_content = download_existing_status(shared_log, read_ok)]
    /\ UNCHANGED shared_log
    /\ UNCHANGED <<gvars, wvars, pvars, mvars, rvars>>

\* the row is appended to old_content and the result uploaded with
\* overwrite=True; the call raises when the upload does
WorkerUpload(w, write_ok) ==
    /\ wk[w].wpc = "downloaded"
    /\ IF write_ok
       THEN /\ shared_log' = wk[w].old_content \o <<wk[w].row>>
            /\ wk' = [wk EXCEPT ![w].wpc = "returned"]
       ELSE /\ wk' = [wk EXCEPT ![w].wpc = "raised"]
            /\ UNCHANGED shared_log
    /\ UNCHANGED <<gvars, wvars, pvars, mvars, rvars>>

WorkersNext ==
    \/ \E w \in 1..MaxWorkers, read_ok \in BOOLEAN : WorkerDownload(w, read_ok)
    \/ \E w \in 1..MaxWorkers, write_ok \in BOOLEAN : WorkerUpload(w, write_ok)

SpecWorkers == WorkersInit /\ [][WorkersNext]_vars

-----------------------------------------------------------------------------
(* Claims about translate_segments, checked under SpecGateway *)

CeilDiv(n, b) == (n + b - 1) \div b

InputIds == {segments[i].id : i \in 1..Len(segments)}

\* C1: with max_retries >= 1, a call that returns normally returns a map with
\* an entry for every id of the input segments.
C1_ReturnedMapCoversInput ==
    (pc = "returned" /\ max_retries >= 1) => InputIds \subseteq DOMAIN id_to_translation

C1_Witness ==
    /\ pc = "returned"
    /\ max_retries >= 1
    /\ Len(segments) = MaxSegs
    /\ Len(batches) >= 2
    /\ resent

\* C2: an attempt is accepted only if its own response is a complete answer
\* for the batch (parsed, and holding every id of the batch); a response that
\* is unparsable or omits an id of the batch makes the attempt fail.
C2_AcceptedOnlyIfComplete ==
    last.outcome = "accepted" => last.complete

\* C3: at most max_retries oracle invocations per batch; after max_retries
\* failed attempts the call has raised, returns no map and sends nothing more.
C3_RetriesBoundedThenRaise ==
    /\ last.calls <= max_retries
    /\ (last.outcome \in {"retry", "raised"} /\ last.calls >= max_retries) => pc = "raised"
    /\ pc = "raised" =>
          /\ last.outcome = "raised"
          /\ last.calls = max_retries
          /\ Len(payloads) = batch_idx
          /\ ~ENABLED GatewayNext

C3_Witness ==
    /\ pc = "raised"
    /\ max_retries = MaxRetries
    /\ last.calls = MaxRetries
    /\ batch_idx < Len(batches)

\* C4: if the oracle fails on the first k-1 attempts for a batch and answers
\* completely on the k-th (k <= max_retries), the gateway makes exactly k
\* invocations for the batch, does not raise, and the batch's entries of the
\* map are those of the k-th response.
C4_AcceptsAtFirstCompleteResponse ==
    /\ last.complete => last.outcome = "accepted"
    /\ last.outcome = "accepted" =>
          /\ last.complete
          /\ last.calls = last.fails + 1
          /\ last.matches

\* C5: when no payload has to be sent twice, a returning call has sent exactly
\* ceil(N/B) payloads, which are consecutive slices of the input in order,
\* each of 1..B segments, together covering every segment exactly once.
C5_BatchesPartitionInput ==
    (pc = "returned" /\ max_retries >= 1 /\ ~resent) =>
        /\ Len(payloads) = CeilDiv(Len(segments), batch_size)
        /\ Flatten(payloads) = segments
        /\ \A b \in 1..Len(payloads) :
              Len(payloads[b]) >= 1 /\ Len(payloads[b]) <= batch_size

C5_Witness ==
    /\ pc = "returned"
    /\ ~resent
    /\ Len(segments) = MaxSegs
    /\ batch_size = MaxBatchSize
    /\ Len(payloads) = CeilDiv(MaxSegs, MaxBatchSize)
    /\ Len(payloads) >= 2

\* C22: every id -> text pair of the returned map was supplied by the response
\* of the accepted attempt of the batch that holds the id; responses of
\* failed attempts contribute no entry and no value.
C22_PairsComeFromAcceptedResponses ==
    pc = "returned" =>
        \A x \in DOMAIN id_to_translation :
            x \in DOMAIN accepted /\ id_to_translation[x] = accepted[x]

\* C23: the keys of the returned map are exactly the ids of the input
\* segments: an id the oracle returns that was not in the batch sent, or not
\* in the input, never appears in the map and never overwrites the
\* translation of another batch's id.
C23_KeysAreInputIds ==
    pc = "returned" =>
        /\ DOMAIN id_to_translation = InputIds
        /\ \A x \in InputIds \cap DOMAIN accepted : id_to_translation[x] = accepted[x]

\* C30: for a non-empty segment list a call that returns normally has invoked
\* the oracle at least once for every batch, whatever max_retries is, and its
\* map lacks no input id.
C30_EveryBatchInvoked ==
    (pc = "returned" /\ segments # <<>>) =>
        /\ Len(payloads) = Len(batches)
        /\ InputIds \subseteq DOMAIN id_to_translation

-----------------------------------------------------------------------------
(* Claims about the document walkers, checked under SpecWalker *)

\* the runs the reinsertion visits, as loaded and as they are now
RunsBefore == AllRuns(walker, tree0)

RunsAfter == AllRuns(walker, tree)

\* applied maps every extracted id to the text extracted for it
IdentityOnExtracted ==
    \A i \in 1..Len(extracted) :
        /\ extracted[i].id \in DOMAIN applied.map
        /\ applied.map[extracted[i].id] = extracted[i].text

\* the i-th element of a sequence
Nth(s, i) == Head(SubSeq(s, i, i))

\* run by run, a run whose id is not a key of m has the same text in both walks
UnmappedKeepText(before, after, m) ==
    /\ Len(after) = Len(before)
    /\ \A i \in 1..Len(before) :
          Nth(before, i).id \notin DOMAIN m => Nth(after, i).text = Nth(before, i).text

\* C6: after DOCX or PPTX reinsertion, every run whose id has no entry in the
\* Translation Map has exactly the text it had before, whatever other ids the
\* map contains.
C6_UnmappedRunsKeepText ==
    applied.done => UnmappedKeepText(RunsBefore, RunsAfter, applied.map)

\* some non-blank run of before is not a key of m while a run that is a key
\* has been rewritten
SkipsOneRewritesOther(before, after, m) ==
    /\ \E i \in 1..Len(before) :
          /\ NonBlank(Nth(before, i).text)
          /\ Nth(before, i).id \notin DOMAIN m
          /\ Nth(after, i).text = Nth(before, i).text
    /\ \E j \in 1..Len(before) :
          /\ Nth(before, j).id \in DOMAIN m
          /\ Nth(after, j).text # Nth(before, j).text

\* a non-blank run is left out of a map that rewrites another run
C6_Witness ==
    /\ applied.done
    /\ SkipsOneRewritesOther(RunsBefore, RunsAfter, applied.map)

\* C7: extraction followed by reinsertion of the identity Translation Map
\* (every extracted id mapped to its original text) leaves every run of the
\* DOCX or PPTX tree with its original text.
C7_IdentityRoundTrip ==
    (applied.done /\ IdentityOnExtracted) => tree = tree0

\* the identity map of a tree with a padded run and a second segment, reinserted
C7_Witness ==
    /\ applied.done
    /\ IdentityOnExtracted
    /\ Len(extracted) >= 2
    /\ \E i \in 1..Len(extracted) : extracted[i].text = <<" ", "a">>
    /\ tree = tree0

RECURSIVE DocxTableTexts(_)
DocxTableTexts(table) ==
    Flatten([row \in 1..Len(table.rows) |->
        Flatten([col \in 1..Len(table.rows[row].cells) |->
            LET cell == table.rows[row].cells[col] IN
            Flatten([p \in 1..Len(cell.paragraphs) |-> cell.paragraphs[p].runs])
            \o Flatten([n \in 1..Len(cell.tables) |-> DocxTableTexts(cell.tables[n])])])])

\* the texts of every run of a DOCX document
DocxRunTexts(doc) ==
    Flatten([p \in 1..Len(doc.paragraphs) |-> doc.paragraphs[p].runs])
    \o Flatten([t \in 1..Len(doc.tables) |-> DocxTableTexts(doc.tables[t])])

\* the texts of every run of a shape, the shapes grouped in it included
RECURSIVE PptxShapeTexts(_)
PptxShapeTexts(shape) ==
    Flatten([p \in 1..Len(shape.paragraphs) |-> shape.paragraphs[p].runs])
    \o Flatten([row \in 1..Len(shape.rows) |->
          Flatten([col \in 1..Len(shape.rows[row].cells) |->
              LET cell == shape.rows[row].cells[col] IN
              Flatten([p \in 1..Len(cell.paragraphs) |-> cell.paragraphs[p].runs])])])
    \o Flatten([g \in 1..Len(shape.shapes) |-> PptxShapeTexts(shape.shapes[g])])

\* the texts of every run of a presentation
PptxRunTexts(pres) ==
    Flatten([s \in 1..Len(pres.slides) |->
        Flatten([sh \in 1..Len(pres.slides[s].shapes) |->
            PptxShapeTexts(pres.slides[s].shapes[sh])])])

\* segs holds one segment per non-blank text of texts, and nothing else
OnePerNonBlank(segs, texts) ==
    /\ \A i \in 1..Len(segs) : NonBlank(Nth(segs, i).text)
    /\ \A j \in 1..Len(texts) :
          NonBlank(Nth(texts, j)) =>
              Cardinality({i \in 1..Len(segs) : Nth(segs, i).text = Nth(texts, j)})
                  = Cardinality({k \in 1..Len(texts) : Nth(texts, k) = Nth(texts, j)})

UniqueIds(segs) == Cardinality(Range(IdsOf(segs))) = Len(segs)

\* C9: DOCX extraction emits exactly one segment for every non-blank run of the
\* document (top-level paragraphs, table cells, tables nested in cells), with
\* that run's text and an id unique in the document, and none for blank runs;
\* the Hello document yields exactly {id: "p-0-r-0", text: "Hello"}.
C9_OneSegmentPerNonBlankRun ==
    (walker = "DocxProcessor" /\ n_collect >= 1) =>
        /\ OnePerNonBlank(extracted, DocxRunTexts(tree0))
        /\ UniqueIds(extracted)
        /\ tree0 = HelloDoc => extracted = <<[id |-> "p-0-r-0", text |-> Hello]>>

\* C10: PPTX segment ids are collision-free across the presentation, and every
\* non-blank run of a shape nested in group shapes at any depth is extracted.
C10_IdsUniqueAndGroupsExtracted ==
    (walker \in {"PptxProcessor", "PptxTranslator"} /\ n_collect >= 1) =>
        /\ UniqueIds(extracted)
        /\ OnePerNonBlank(extracted, PptxRunTexts(tree0))

\* the numbers of paragraphs, runs, tables, rows, cells of a DOCX tree, nested
\* tables counted with their cell
RECURSIVE DocxTableCounts(_)
DocxTableCounts(table) ==
    <<Len(table.rows),
      [row \in 1..Len(table.rows) |->
          [col \in 1..Len(table.rows[row].cells) |->
              LET cell == table.rows[row].cells[col] IN
              <<[p \in 1..Len(cell.paragraphs) |-> Len(cell.paragraphs[p].runs)],
                [n \in 1..Len(cell.tables) |-> DocxTableCounts(cell.tables[n])]>>]]>>

DocxCounts(doc) ==
    <<[p \in 1..Len(doc.paragraphs) |-> Len(doc.paragraphs[p].runs)],
      [t \in 1..Len(doc.tables) |-> DocxTableCounts(doc.tables[t])]>>

\* the kind and the numbers of paragraphs, runs, rows, cells, children of a shape
RECURSIVE PptxShapeCounts(_)
PptxShapeCounts(shape) ==
    <<shape.kind,
      [p \in 1..Len(shape.paragraphs) |-> Len(shape.paragraphs[p].runs)],
      [row \in 1..Len(shape.rows) |->
          [col \in 1..Len(shape.rows[row].cells) |->
              LET cell == shape.rows[row].cells[col] IN
              [p \in 1..Len(cell.paragraphs) |-> Len(cell.paragraphs[p].runs)]]],
      [g \in 1..Len(shape.shapes) |-> PptxShapeCounts(shape.shapes[g])]>>

PptxCounts(pres) ==
    [s \in 1..Len(pres.slides) |->
        [sh \in 1..Len(pres.slides[s].shapes) |->
            PptxShapeCounts(pres.slides[s].shapes[sh])]]

Counts(w, doc) == IF w = "DocxProcessor" THEN DocxCounts(doc) ELSE PptxCounts(doc)

AllExtractedMapped ==
    \A i \in 1..Len(extracted) : Nth(extracted, i).id \in DOMAIN applied.map

\* run by run: an extracted (non-blank) run shows m[its id], any other run its
\* old text
ExtractedRunsShowMap(before, after, m) ==
    /\ Len(after) = Len(before)
    /\ \A i \in 1..Len(before) :
          Nth(after, i).text =
              IF NonBlank(Nth(before, i).text) THEN m[Nth(before, i).id]
              ELSE Nth(before, i).text

\* C11: reinsertion of a Translation Map holding every extracted id sets each
\* extracted run's text to exactly map[id] and changes nothing else: blank runs
\* keep their text and the numbers of paragraphs, runs, tables, rows, cells and
\* shapes are the same before and after.
C11_MappedRunsShowTranslation ==
    (applied.done /\ AllExtractedMapped) =>
        /\ ExtractedRunsShowMap(RunsBefore, RunsAfter, applied.map)
        /\ Counts(walker, tree) = Counts(walker, tree0)

\* tbl is 2 rows x 2 columns of one paragraph of one run each
TwoByTwo(tbl) ==
    /\ Len(tbl.rows) = 2
    /\ \A row \in 1..2 :
          /\ Len(tbl.rows[row].cells) = 2
          /\ \A col \in 1..2 : Len(tbl.rows[row].cells[col].paragraphs[1].runs) = 1

\* a 2 x 2 table of non-blank runs, all four ids in the map, all four cells
\* showing the translation
C11_Witness ==
    /\ walker = "DocxProcessor"
    /\ applied.done
    /\ AllExtractedMapped
    /\ Len(extracted) = 4
    /\ Len(tree0.tables) = 1
    /\ TwoByTwo(tree0.tables[1])
    /\ TwoByTwo(tree.tables[1])
    /\ \A row \in 1..2 : \A col \in 1..2 :
          tree.tables[1].rows[row].cells[col].paragraphs[1].runs[1] = Bonjour

-----------------------------------------------------------------------------
(* Claims about one translate_document call, checked under SpecPipeline *)

DocxFamily == processor # "none" /\ Opens(processor) = "docx"

Failing(o) ==
    o \in {"vision_raises", "vision_empty", "vision_blank", "open_fails", "render_raises"}

\* translate_image_with_ocr_and_gpt: None (FALSE here) unless OCR found text,
\* the gateway returned and the drawing succeeded
OcrReplaces(ocr_segments, gateway_raised, draw_raised) ==
    IF ocr_segments = <<>> THEN FALSE
    ELSE IF gateway_raised THEN FALSE
    ELSE IF draw_raised THEN FALSE
    ELSE TRUE

\* after the image phase: an image whose oracle or rendering failed has its
\* original bytes, every other image was redrawn
ImagesSettled ==
    /\ Len(img_log) = Len(content_bytes.images)
    /\ Len(td_doc.images) = Len(content_bytes.images)
    /\ \A i \in 1..Len(img_log) :
          IF Failing(img_log[i].outcome)
          THEN td_doc.images[i] = content_bytes.images[i]
          ELSE td_doc.images[i].drawn # "none"

\* C13: for every embedded image independently, when the vision call raises
\* or returns empty or whitespace text, when OCR finds no text, or when
\* rendering fails, the image keeps exactly its original bytes, the other
\* images are still processed, and translate_document still returns a
\* serialized document: the image phase never raises.
C13_ImageFailuresLeaveOriginal ==
    /\ [](/\ (DocxFamily /\ "images" \in Range(trace)) => ImagesSettled
          /\ (DocxFamily /\ "images" \in Range(trace) /\ ppc \in {"returned", "named"}) =>
                (result.saved /\ result.images = td_doc.images)
          /\ \A g \in BOOLEAN, d \in BOOLEAN : ~OcrReplaces(<<>>, g, d))
    /\ [][ppc = "images" => ppc' = "save"]_vars

\* two images, the first left alone after a failure, the second redrawn, and
\* the document returned
C13_Witness ==
    /\ processor = "DocxProcessor"
    /\ ppc = "returned"
    /\ Len(img_log) = 2
    /\ Failing(img_log[1].outcome)
    /\ result.images[1] = content_bytes.images[1]
    /\ img_log[2].outcome = "table"
    /\ result.images[2].drawn = "table"

\* trace starts with pre
StartsWith(t, pre) == Len(t) >= Len(pre) /\ SubSeq(t, 1, Len(pre)) = pre

\* the phases run, without the conversion step of PdfTranslator
Phases == IF Len(trace) > 0 /\ trace[1] = "convert" THEN Tail(trace) ELSE trace

\* C14: when extraction yields zero text segments the gateway is never called
\* for that document; the DOCX pipeline goes straight to image translation and
\* then serialization, the PDF (and PPTX) pipeline returns the input bytes.
C14_NoSegmentsNoGateway ==
    (td_segments = <<>> /\ ppc \notin {"idle", "load", "extract", "convert"}
        /\ "extract" \in Range(trace)) =>
        /\ gateway_calls = 0
        /\ DocxFamily =>
              /\ StartsWith(<<"load", "extract", "images", "save">>, Phases)
              /\ ppc \in {"images", "save", "returned", "named", "raised"}
              /\ ppc = "images" <=> Phases = <<"load", "extract">>
        /\ ~DocxFamily =>
              /\ ppc \in {"returned", "named"}
              /\ result = content_bytes

\* a scanned PDF handed back as it came
C14_Witness ==
    /\ processor = "PdfProcessor"
    /\ ppc = "returned"
    /\ content_bytes.tree = ScannedPdf
    /\ td_segments = <<>>
    /\ gateway_calls = 0
    /\ result = content_bytes

\* C15: within one DOCX translate_document call the phases run in the order
\* extract, translate, reinsert, images, serialize, each at most once; no run
\* text is modified before the gateway returned the map, no image is replaced
\* before reinsertion finished, and the document is serialized only after the
\* image phase.
C15_PhasesInOrder ==
    DocxFamily =>
        /\ \/ StartsWith(<<"load", "extract", "translate", "reinsert", "images", "save">>,
                         Phases)
           \/ StartsWith(<<"load", "extract", "images", "save">>, Phases)
        /\ gateway_calls <= 1
        /\ ("load" \in Range(trace) /\ td_doc.tree # content_bytes.tree) =>
              (td_map.done /\ "reinsert" \in Range(trace))
        /\ ("load" \in Range(trace) /\ td_doc.images # content_bytes.images) =>
              /\ "images" \in Range(trace)
              /\ td_segments # <<>> => "reinsert" \in Range(trace)
        /\ "save" \in Range(trace) => "images" \in Range(trace)
        /\ (ppc \in {"returned", "named"} /\ "load" \in Range(trace)) =>
              (result.saved /\ "save" \in Range(trace))

\* a document with text and an image through all five phases
C15_Witness ==
    /\ processor = "DocxProcessor"
    /\ ppc = "returned"
    /\ trace = <<"load", "extract", "translate", "reinsert", "images", "save">>
    /\ result.tree # content_bytes.tree
    /\ result.images # content_bytes.images

\* the name the output must carry: base + suffix + the extension of the
\* returned bytes
ExpectedOutName ==
    CASE filename = NameDocx -> <<"a", "_", "f", "r">> \o ExtDocx
      [] filename = NameDotted -> <<"v", ".", "1", "_", "f", "r">> \o ExtDocx
      [] filename = NamePptxUpper -> <<"b", "_", "f", "r", ".", "P", "P", "T", "X">>
      [] filename = NamePdf ->
            <<"c", "_", "f", "r">> \o (IF result.fmt = "docx" THEN ExtDocx ELSE ExtPdf)
      [] OTHER -> <<>>

\* C18: the output name is base + suffix + original extension for DOCX and
\* PPTX, and ends in .docx when a PDF was converted and PdfTranslator
\* returned DOCX bytes.
C18_OutputNameMatchesBytes ==
    ppc = "named" => out_name = ExpectedOutName

\* C19: an extraction error, such as the PDF to DOCX conversion failing in
\* PdfTranslator, is fatal: translate_document does not return normally
\* unless the document was opened.
C19_ExtractionErrorIsFatal ==
    ppc \in {"returned", "named"} => "load" \in Range(trace)

-----------------------------------------------------------------------------
(* Claims about main() and the status log, checked under SpecMain *)

\* translate_segments was called for the current document and raised
GatewayRaised == gateway_calls > 0 /\ ~td_map.done

UploadedFiles == {uploads[i].file : i \in 1..Len(uploads)}

RecordsOf(file) ==
    {k \in 1..Len(written) : written[k].blob_name = file /\ written[k].ok}

\* C16: when main has ended, every file of the list has exactly one status
\* record written in this run, its status is one of the six status tags, and
\* a SUCCESS record exists only for a file whose translation was uploaded.
C16_OneStatusRecordPerFile ==
    mpc = "end" =>
        \A i \in 1..Len(file_list) :
            /\ Cardinality(RecordsOf(file_list[i])) = 1
            /\ \A k \in RecordsOf(file_list[i]) :
                  /\ written[k].status \in Statuses
                  /\ written[k].status = "SUCCESS" => file_list[i] \in UploadedFiles

\* the same while every upload of the log blob succeeds
OneRecordPerFileWhenLogWritable ==
    (mpc = "end" /\ \A k \in 1..Len(written) : written[k].ok) =>
        \A i \in 1..Len(file_list) :
            /\ Cardinality(RecordsOf(file_list[i])) = 1
            /\ \A k \in RecordsOf(file_list[i]) :
                  /\ written[k].status \in Statuses
                  /\ written[k].status = "SUCCESS" => file_list[i] \in UploadedFiles

\* C17: after a call of log_status that returned, the log is the log before
\* the call, unchanged and in the same order, followed by exactly one new
\* record, also when reading the existing log failed.
C17_StatusLogAppendOnly ==
    (last_log.called /\ last_log.ok) =>
        /\ last_log.after = last_log.before \o <<last_log.row>>
        /\ status_log = last_log.after

-----------------------------------------------------------------------------
(* Claims about the redrawn image, checked under SpecRender *)

\* C20: for the answer '| A | B |', '|---|---|', '| 1 | 2 |' the table path
\* is taken and a rectangle is drawn for each of the 4 cells, whatever the
\* size of the original image; for a parsed table of R rows and C columns
\* exactly R*C rectangles are drawn.
C20_TableDrawsEveryCell ==
    rpc = "done" =>
        /\ rtext = ExampleTable => (rmode = "table" /\ Cardinality(rects) = 4)
        /\ parse_markdown_table(rtext).rows # <<>> =>
              /\ rmode = "table"
              /\ Cardinality(rects) = Len(parse_markdown_table(rtext).rows)
                                      * Len(parse_markdown_table(rtext).rows[1])

\* the example is parsed as 2 rows of 2 cells and drawn as a table, and every
\* cell has its rectangle when the image is high enough for the rows
TableDrawnWhenRowsFit ==
    (rpc = "done" /\ rtext = ExampleTable) =>
        /\ parse_markdown_table(rtext).rows = <<<<<<"A">>, <<"B">>>>, <<<<"1">>, <<"2">>>>>>
        /\ rmode = "table"
        /\ rheight >= 2 * Margin + 2 * (rline + 10) => Cardinality(rects) = 4

-----------------------------------------------------------------------------
(* Claims about the rebuilt PDF, checked under SpecPipeline *)

\* the boxes the claim allows on a page: one per span of the page with a
\* non-blank translation, at the span's place, holding exactly the translation
TranslationBoxes(doc, page, m) ==
    Flatten([k \in 1..Len(Pdf_page_spans(doc, page)) |->
        LET seg_id == Pdf_page_spans(doc, page)[k].id IN
        IF seg_id \in DOMAIN m /\ NonBlank(m[seg_id])
        THEN <<[at |-> seg_id, text |-> m[seg_id]]>>
        ELSE <<>>])

\* C25: every page of the rebuilt PDF holds the rasterized original page and,
\* for each span of the page with a non-blank translation, a text box at the
\* span's bounding box whose text is exactly the translation; no other text
\* is on any page and a span without translation has no box.
C25_OverlayIsExactlyTheTranslations ==
    (processor = "PdfProcessor" /\ ppc \in {"returned", "named"} /\ result.saved) =>
        /\ Len(result.tree.pages) = Len(td_doc.tree.pages)
        /\ \A page \in 1..Len(result.tree.pages) :
              /\ result.tree.pages[page].background = page
              /\ result.tree.pages[page].boxes
                 = TranslationBoxes(td_doc.tree, page, td_map.map)

\* apart from the header of the first page and the "[SP] " prefix, the boxes
\* are those of the spans with a non-blank translation
OverlayUpToHeaderAndPrefix ==
    (processor = "PdfProcessor" /\ ppc \in {"returned", "named"} /\ result.saved) =>
        \A page \in 1..Len(result.tree.pages) :
            LET boxes == result.tree.pages[page].boxes
                spans == IF page = 1 THEN Tail(boxes) ELSE boxes
                want == TranslationBoxes(td_doc.tree, page, td_map.map)
            IN  /\ Len(spans) = Len(want)
                /\ \A k \in 1..Len(want) :
                      /\ spans[k].at = want[k].at
                      /\ spans[k].text = <<"[", "S", "P", "]", " ">> \o want[k].text

-----------------------------------------------------------------------------
(* More claims about main(), checked under SpecMain *)

\* the status of the latest log_status call
LastStatus == written[Len(written)].status

\* the except clause has run for the current file
Handled ==
    /\ written # <<>>
    /\ written[Len(written)].blob_name = cur.file
    /\ cur.failed # "none"
    /\ mpc \in {"loop", "end"}

\* C21: a failed download of the input document is recorded with status
\* DOWNLOAD_FAILED and a failed upload of the translated document with status
\* UPLOAD_FAILED, both distinct from TRANSLATION_FAILED.
C21_DownloadAndUploadFailuresTagged ==
    /\ (Handled /\ cur.failed = "download") => LastStatus = "DOWNLOAD_FAILED"
    /\ (Handled /\ cur.failed = "upload") => LastStatus = "UPLOAD_FAILED"

\* the code's tag for every failure
FailuresTaggedTranslationFailed ==
    Handled => LastStatus = "TRANSLATION_FAILED"

\* C24: a file whose translated output is reported to exist is not downloaded,
\* translated or uploaded and log_status is called for it with
\* SKIPPED_ALREADY_TRANSLATED; so a run of main that starts with the outputs
\* of a fully successful run over the same list invokes no translator and
\* uploads nothing.
C24_ExistingOutputsAreSkipped ==
    /\ cur.skipped =>
          /\ ~cur.downloaded
          /\ ~cur.uploaded
          /\ cur.translate = "none"
          /\ cur.file \notin UploadedFiles
          /\ filename # cur.file
          /\ \E k \in 1..Len(written) :
                /\ written[k].blob_name = cur.file
                /\ written[k].status = "SKIPPED_ALREADY_TRANSLATED"
    /\ (file_list # <<>> /\ outputs = OutputNames(file_list)) =>
          /\ uploads = <<>>
          /\ processor = "none"

\* the same while the existence check of the output container answers
SecondRunIdleWhenCheckAnswers ==
    (file_list # <<>> /\ outputs = OutputNames(file_list) /\ ~cur.unreported) =>
        /\ uploads = <<>>
        /\ processor = "none"

\* C28: a failure while processing one file, in the download, the
\* translation, the upload or the status logging, never keeps the remaining
\* files from being processed: when main ends, every file of the list has
\* been attempted.
C28_FailureDoesNotStopTheLoop ==
    mpc = "end" => file_idx > Len(file_list)

-----------------------------------------------------------------------------
(* Claims about _parse_markdown_table, checked under SpecRender *)

\* the cells of a line of the text that starts with "|" and has a second "|"
CellsOf(line) == Parts(Strip(line))

\* a separator row: every cell is empty or made only of "-" and ":"
SeparatorCells(cells) ==
    \A i \in 1..Len(cells) : \A k \in 1..Len(cells[i]) : cells[i][k] \in {"-", ":"}

\* the positions of the lines of the text that are table data rows
DataRowLines(text) ==
    {i \in 1..Len(splitlines(text)) :
        /\ IsTableLine(Strip(splitlines(text)[i]))
        /\ ~SeparatorCells(CellsOf(splitlines(text)[i]))}

\* the positions of the table lines of the text
TableLinePositions(text) ==
    {i \in 1..Len(splitlines(text)) : IsTableLine(Strip(splitlines(text)[i]))}

\* C26: the rows returned by _parse_markdown_table all have as many cells as
\* the first table row that is not a separator, none of them is a separator
\* row, the row list is empty exactly when the text has no table data row
\* (and then the wrapped-text fallback is drawn), and title_lines holds only
\* non-empty lines that come before the first table line.
C26_ParsedTableIsRectangular ==
    rpc = "done" =>
        LET parsed == parse_markdown_table(rtext)
            lines == splitlines(rtext)
        IN  /\ \A i \in 1..Len(parsed.rows) :
                  /\ Len(parsed.rows[i]) = Len(parsed.rows[1])
                  /\ ~SeparatorCells(parsed.rows[i])
            /\ DataRowLines(rtext) # {} =>
                  /\ parsed.rows # <<>>
                  /\ \E i \in DataRowLines(rtext) :
                        /\ \A j \in DataRowLines(rtext) : i <= j
                        /\ parsed.rows[1] = CellsOf(lines[i])
            /\ (parsed.rows = <<>>) <=> (DataRowLines(rtext) = {})
            /\ (rmode = "text") <=> (parsed.rows = <<>>)
            /\ (rmode = "table") <=> (parsed.rows # <<>>)
            /\ \A k \in 1..Len(parsed.title_lines) :
                  /\ parsed.title_lines[k] # <<>>
                  /\ \E i \in 1..Len(lines) :
                        /\ Strip(lines[i]) = parsed.title_lines[k]
                        /\ \A j \in TableLinePositions(rtext) : i < j

\* a title, a header row and a row with fewer cells: the short row is dropped
C26_Witness ==
    /\ rpc = "done"
    /\ rtext = join(<<LineTitle, LineAB, LineOne>>, "\n")
    /\ rmode = "table"
    /\ parse_markdown_table(rtext).title_lines = <<LineTitle>>
    /\ parse_markdown_table(rtext).rows = <<<<<<"A">>, <<"B">>>>>>

-----------------------------------------------------------------------------
(* Reinsertion of what the gateway accepted, checked under SpecPipeline *)

\* C29: whatever responses the gateway accepted, after DOCX or PPTX
\* reinsertion no run whose original text was non-blank has empty or
\* whitespace-only text.
C29_NoRunBlankedByReinsertion ==
    (processor \in {"DocxProcessor", "PptxProcessor"} /\ "reinsert" \in Range(trace)) =>
        LET before == AllRuns(processor, content_bytes.tree)
            after == AllRuns(processor, td_doc.tree)
        IN  /\ Len(after) = Len(before)
            /\ \A i \in 1..Len(before) :
                  NonBlank(Nth(before, i).text) => NonBlank(Nth(after, i).text)

\* a non-blank translation is written as it is
NonBlankTranslationsWritten ==
    (processor \in {"DocxProcessor", "PptxProcessor"} /\ "reinsert" \in Range(trace)) =>
        LET before == AllRuns(processor, content_bytes.tree)
            after == AllRuns(processor, td_doc.tree)
        IN  \A i \in 1..Len(before) :
                (NonBlank(Nth(before, i).text) /\ Nth(before, i).id \in DOMAIN td_map.map) =>
                    Nth(after, i).text = td_map.map[Nth(before, i).id]

-----------------------------------------------------------------------------
(* Claims about parallel workers, checked under SpecWorkers *)

\* every worker's log_status call returned, after reading the blob
AllLogged ==
    \A w \in 1..MaxWorkers : wk[w].wpc = "returned" /\ wk[w].read_ok

\* C27: when the workers, each with its own document, have all returned
\* from log_status, the status log holds the record of every one of them,
\* whatever the interleaving of their download and upload steps.
C27_NoRecordLostAmongWorkers ==
    AllLogged => \A w \in 1..MaxWorkers : wk[w].row \in Range(shared_log)

\* the record of the worker that uploaded last is always there
LastUploadIsLogged ==
    \A w \in 1..MaxWorkers :
        (wk[w].wpc = "returned" /\ shared_log # <<>>) =>
            \E v \in 1..MaxWorkers :
                wk[v].wpc = "returned" /\ shared_log[Len(shared_log)] = wk[v].row

=============================================================================
